---- MODULE Spec2Model ----
(***************************************************************************)
(* Model of the federation and audit engine of quantum-memory-orchestrator *)
(* (src/src/orchestrator/quantum_memory.py): the hash-linked audit chain,  *)
(* the store and search operations that append to it and fan out to the    *)
(* mem0 and supermemory providers, the health check and the forensic       *)
(* report with its chain verification.                                     *)
(*                                                                         *)
(* Operations run as coroutines of one event loop: a coroutine runs until  *)
(* it suspends in a network call, so each action below is the whole run of *)
(* statements between two suspension points.                               *)
(* SHA-256 is modelled as a collision-free digest: the digest of x is the  *)
(* pair <<"sha256", x>>.  json.dumps(..., sort_keys=True) is modelled as   *)
(* the sequence of key, value pairs in sorted key order.                   *)
(***************************************************************************)
EXTENDS Integers, Sequences, FiniteSets, TLC

\* ------------------------------------------------------------------ bounds
MaxOps == 2
MaxClock == 1
MaxTampers == 1
MaxHits == 2
MaxLimit == 3
MaxCalls == 2
MaxRetries == 2
MaxRecords == 2
MaxWrites == 2

\* --------------------------------------------------------------- constants
DefaultLimit == 20
SampleSize == 10

CaseId == "1FDV-23-0001009"
Backends == {"mem0", "supermemory"}
MemoryProvider == {"mem0", "supermemory", "memory_plugin", "all"}
Contents == {"evidence-17"}
Queries == {"evidence"}
Ops == 1 .. MaxOps

VARIABLES
    providers,      \* self.providers: the providers that initialised
    audit_chain,    \* self.audit_chain
    metrics,        \* self.metrics
    clock,          \* datetime.now(timezone.utc), in seconds
    ops,            \* the store/search coroutines: parameters, position, locals
    report,         \* what the last get_forensic_report call gave its caller
    appended,       \* history: every entry as it was when it was appended
    tampers,        \* number of in-place mutations of entries by reference holders
    search_case,    \* one search from its providers' answers on: input, output
    client,         \* the fields of one MemoryPluginClient
    calls,          \* the calls of client._request: locals, outcome
    adapters,       \* the MemoryAdapter objects, one of each class
    registered,     \* the keys of MemoryAdapterFactory.adapters
    uuid_next,      \* the number of uuid4 values the adapters have drawn
    last_call,      \* the latest call of an adapter method and what it gave
    buckets,        \* the buckets the MemoryPlugin service holds
    ensures,        \* the calls of ensure_bucket_for_namespace, one a thread
    health          \* what the last get_system_health call gave its caller

request_vars == <<client, calls>>

adapter_vars == <<adapters, registered, uuid_next, last_call>>

bucket_vars == <<buckets, ensures>>

vars == <<providers, audit_chain, metrics, clock, ops, report, appended, tampers,
          search_case, request_vars, adapter_vars, bucket_vars, health>>

\* ------------------------------------------------------------------ hashing
sha256(x) == <<"sha256", x>>

ZeroHash == <<"0">>

create_forensic_hash(content) == sha256(<<"utf-8", content>>)

\* json.dumps(audit_entry, sort_keys=True): keys in sorted order, entry_hash
\* is not yet a key when the entry is serialised
EntryJson(e) ==
    << "case_id", e.case_id, "chain_index", e.chain_index,
       "data_hash", e.data_hash, "id", e.id, "operation", e.operation,
       "previous_hash", e.previous_hash, "result_status", e.result_status,
       "timestamp_hst", e.timestamp_hst, "timestamp_utc", e.timestamp_utc >>

DataJson(data) ==
    IF data.op = "store_memory_unified"
    THEN << "content_hash", data.content_hash, "content_length", data.content_length,
            "metadata", data.metadata, "provider", data.provider >>
    ELSE << "case_id", data.case_id, "limit", data.limit,
            "provider", data.provider, "query", data.query >>

strftime_utc(t) == <<t, "UTC">>
strftime_hst(t) == <<t, "HST">>

\* ------------------------------------------------------------ audit entries
\* 'success' if result and not isinstance(result, Exception) else 'pending'
ResultStatus(result) ==
    IF result # "None" /\ result # "Exception" THEN "success" ELSE "pending"

\* faulty variant: a one-based index
ChainIndexOneBased(chain) == Len(chain) + 1

\* 'chain_index': len(self.audit_chain)
ChainIndex(chain) == Len(chain)

\* faulty variant: links to the data hash of the last entry, not to its entry hash
PreviousHashOfData(chain) ==
    IF chain # <<>> THEN chain[Len(chain)].data_hash ELSE ZeroHash

\* faulty variant: every entry carries the sentinel
PreviousHashSentinel(chain) == ZeroHash

\* 'previous_hash': self.audit_chain[-1]['entry_hash'] if self.audit_chain else '0'
PreviousHash(chain) ==
    IF chain # <<>> THEN chain[Len(chain)].entry_hash ELSE ZeroHash

\* faulty variant: the entry is hashed before its previous_hash is filled in
EntryHashBeforeLink(body) ==
    sha256(EntryJson([body EXCEPT !.previous_hash = ZeroHash]))

\* entry_string = json.dumps(audit_entry, sort_keys=True); sha256 of it
EntryHash(body) == sha256(EntryJson(body))

\* faulty variant: the chain is assigned, not appended to
AppendEntryReplace(chain, e) == <<e>>

\* self.audit_chain.append(audit_entry)
AppendEntry(chain, e) == Append(chain, e)

WithEntryHash(body, h) ==
    [ id |-> body.id, case_id |-> body.case_id, operation |-> body.operation,
      data_hash |-> body.data_hash, timestamp_hst |-> body.timestamp_hst,
      timestamp_utc |-> body.timestamp_utc, chain_index |-> body.chain_index,
      previous_hash |-> body.previous_hash, result_status |-> body.result_status,
      entry_hash |-> h ]

\* str(uuid.uuid4()): a fresh identifier, no two calls give the same one; the
\* only call is the one per audit entry
uuid4(chain) == <<"uuid4", Len(chain)>>

\* the entry _create_audit_entry builds at time t
_create_audit_entry(chain, operation, data, result, t) ==
    LET body == [ id |-> uuid4(chain), case_id |-> CaseId, operation |-> operation,
                  data_hash |-> sha256(DataJson(data)),
                  timestamp_hst |-> strftime_hst(t),
                  timestamp_utc |-> strftime_utc(t),
                  chain_index |-> ChainIndex(chain),
                  previous_hash |-> PreviousHash(chain),
                  result_status |-> ResultStatus(result) ]
    IN  WithEntryHash(body, EntryHash(body))

NoEntry ==
    [ id |-> <<"uuid4", -1>>, case_id |-> "", operation |-> "", data_hash |-> ZeroHash,
      timestamp_hst |-> strftime_hst(0), timestamp_utc |-> strftime_utc(0),
      chain_index |-> -1, previous_hash |-> ZeroHash, result_status |-> "",
      entry_hash |-> ZeroHash ]

\* ------------------------------------------------------------- verification
\* the loop of _verify_audit_chain from python index i on: "at" is the index
\* logged at the first broken link, -1 when the walk reaches the end
RECURSIVE VerifyWalk(_, _)
VerifyWalk(chain, i) ==
    IF i >= Len(chain) THEN [kind |-> "return", value |-> TRUE, at |-> -1]
    ELSE IF i = 0 THEN VerifyWalk(chain, i + 1)
    ELSE IF chain[i + 1].previous_hash # chain[i].entry_hash
         THEN [kind |-> "return", value |-> FALSE, at |-> i]
         ELSE VerifyWalk(chain, i + 1)

\* faulty variant: the walk starts one link too late
verify_from_second_link(chain) == VerifyWalk(chain, 2)

\* faulty variant: a broken link raises instead of returning False
verify_raising(chain) ==
    LET v == VerifyWalk(chain, 0)
    IN  IF v.value THEN v ELSE [v EXCEPT !.kind = "raise"]

_verify_audit_chain(chain) == VerifyWalk(chain, 0)

\* self.audit_chain[-10:]
LastEntries(chain, n) ==
    IF Len(chain) <= n THEN chain ELSE SubSeq(chain, Len(chain) - n + 1, Len(chain))

get_forensic_report(chain) ==
    LET v == _verify_audit_chain(chain)
    IN  [ kind |-> v.kind,
          audit_chain_integrity |-> v.value,
          failure_index |-> v.at,
          total_operations |-> Len(chain),
          sample_length |-> Len(LastEntries(chain, SampleSize)) ]

NoReport ==
    [ kind |-> "none", audit_chain_integrity |-> TRUE, failure_index |-> -1,
      total_operations |-> 0, sample_length |-> 0 ]

\* ------------------------------------------------------ merging of searches
\* A search hit is what a provider's search returned as one element of its
\* result list: a dict (with or without the keys 'content' and 'text') or
\* something that is not a dict.  id stands for the rest of the payload, which
\* differs from provider to provider.
Absent == "<absent>"

Hit(b, n, content, text) ==
    [ dict |-> TRUE, content |-> content, text |-> text, id |-> <<b, n>> ]

NotADict(b, n) ==
    [ dict |-> FALSE, content |-> Absent, text |-> Absent, id |-> <<b, n>> ]

\* str(result.get('content', result.get('text', '')))
ContentStr(hit) ==
    IF hit.content # Absent THEN hit.content
    ELSE IF hit.text # Absent THEN hit.text
    ELSE ""

\* hashlib.sha256(content_str.encode()).hexdigest()
ContentHash(hit) == sha256(<<"utf-8", ContentStr(hit)>>)

\* {**result, 'source_provider': provider, 'content_hash': content_hash}
MergedEntry(hit, provider) ==
    [ hit |-> hit, source_provider |-> provider, content_hash |-> ContentHash(hit) ]

\* faulty variant: a later hit with the same content replaces the kept one
MergeHitLastWins(acc, hit, provider) ==
    IF acc.raised THEN acc
    ELSE IF ~hit.dict THEN [acc EXCEPT !.raised = TRUE]
    ELSE IF ContentHash(hit) \notin acc.seen
         THEN [acc EXCEPT !.merged = Append(@, MergedEntry(hit, provider)),
                          !.seen = @ \cup {ContentHash(hit)}]
         ELSE [acc EXCEPT !.merged =
                 [k \in DOMAIN @ |->
                    IF @[k].content_hash = ContentHash(hit)
                    THEN MergedEntry(hit, provider) ELSE @[k]]]

\* faulty variant: every hit is kept, nothing is deduplicated
MergeHitKeepAll(acc, hit, provider) ==
    IF acc.raised THEN acc
    ELSE IF ~hit.dict THEN [acc EXCEPT !.raised = TRUE]
    ELSE [acc EXCEPT !.merged = Append(@, MergedEntry(hit, provider)),
                     !.seen = @ \cup {ContentHash(hit)}]

\* the body of the inner loop of _merge_search_results; result.get raises
\* AttributeError on a hit that is not a dict, which ends the merge
MergeHit(acc, hit, provider) ==
    IF acc.raised THEN acc
    ELSE IF ~hit.dict THEN [acc EXCEPT !.raised = TRUE]
    ELSE IF ContentHash(hit) \notin acc.seen
         THEN [acc EXCEPT !.merged = Append(@, MergedEntry(hit, provider)),
                          !.seen = @ \cup {ContentHash(hit)}]
         ELSE acc

\* for result in provider_results.get('results', [])
RECURSIVE MergeHits(_, _, _, _)
MergeHits(acc, hits, i, provider) ==
    IF i > Len(hits) THEN acc
    ELSE MergeHits(MergeHit(acc, hits[i], provider), hits, i + 1, provider)

\* faulty variant: a provider that failed discards what was merged before it
MergeProviderFailedClears(acc, pr) ==
    IF pr.status = "success" THEN MergeHits(acc, pr.results, 1, pr.provider)
    ELSE [acc EXCEPT !.merged = <<>>, !.seen = {}]

\* if provider_results.get('status') == 'success'
MergeProvider(acc, pr) ==
    IF pr.status = "success" THEN MergeHits(acc, pr.results, 1, pr.provider)
    ELSE acc

\* for provider, provider_results in results.items(): results is the dict in
\* insertion order, here the sequence of [provider, status, results]
RECURSIVE MergeProviders(_, _, _)
MergeProviders(acc, results, k) ==
    IF k > Len(results) THEN acc
    ELSE MergeProviders(MergeProvider(acc, results[k]), results, k + 1)

_merge_search_results(results) ==
    MergeProviders([merged |-> <<>>, seen |-> {}, raised |-> FALSE], results, 1)

\* merged_results[:limit]
Take(seq, n) == IF Len(seq) <= n THEN seq ELSE SubSeq(seq, 1, n)

\* faulty variant: every provider's list is cut to the limit before the merge
\* and the total is counted after the cut
SearchOutputCutFirst(results, limit) ==
    LET cut == [k \in DOMAIN results |->
                  [results[k] EXCEPT !.results = Take(@, limit)]]
        m == _merge_search_results(cut)
    IN  IF m.raised
        THEN [raised |-> TRUE, merged_results |-> <<>>, total_found |-> 0]
        ELSE [raised |-> FALSE, merged_results |-> Take(m.merged, limit),
              total_found |-> Len(Take(m.merged, limit))]

\* search_memory_unified from the merge on: 'merged_results' and 'total_found'
\* of the result, or the exception of the merge, which the handler turns into
\* an HTTPException
SearchOutput(results, limit) ==
    LET m == _merge_search_results(results)
    IN  IF m.raised
        THEN [raised |-> TRUE, merged_results |-> <<>>, total_found |-> 0]
        ELSE [raised |-> FALSE, merged_results |-> Take(m.merged, limit),
              total_found |-> Len(m.merged)]

\* ------------------------------------------------------- store and search
\* the statements of store_memory_unified and of search_memory_unified, in
\* program order
\* faulty variant: the audit entry is written after the providers were called
StoreFlowAuditAfterDispatch == <<"mem0", "supermemory", "audit", "finalize">>

\* faulty variant: a second entry is written when the outcome is known
SearchFlowAuditTwice == <<"audit", "mem0", "supermemory", "audit", "finalize">>

\* faulty variant: supermemory is called before mem0
StoreFlowSupermemoryFirst == <<"audit", "supermemory", "mem0", "finalize">>

StoreFlow == <<"audit", "mem0", "supermemory", "finalize">>
SearchFlow == <<"audit", "mem0", "supermemory", "finalize">>

Flow(kind) == IF kind = "store" THEN StoreFlow ELSE SearchFlow

Operation(kind) ==
    IF kind = "store" THEN "store_memory_unified" ELSE "search_memory_unified"

\* provider == MemoryProvider.ALL or provider == MemoryProvider.<b>, and
\* MemoryProvider.<b> in self.providers
Dispatches(avail, provider, b) == (provider = "all" \/ provider = b) /\ b \in avail

\* audit_data; the metadata timestamps are taken in the same synchronous run
\* as the entry's, t is the clock of that run
AuditData(op, t) ==
    IF op.kind = "store"
    THEN [ op |-> "store_memory_unified",
           content_length |-> Len(op.content),
           content_hash |-> create_forensic_hash(op.content),
           metadata |-> << create_forensic_hash(op.content),
                           strftime_hst(t), strftime_utc(t) >>,
           provider |-> op.provider ]
    ELSE [ op |-> "search_memory_unified", query |-> op.content,
           case_id |-> CaseId, limit |-> DefaultLimit, provider |-> op.provider ]

\* faulty variant: only the providers that succeeded are listed
ProvidersUsedSucceeded(results) ==
    SelectSeq(<<"mem0", "supermemory">>, LAMBDA b : results[b] = "success")

\* list(results.keys()): insertion order is mem0, then supermemory
ProvidersUsed(results) ==
    SelectSeq(<<"mem0", "supermemory">>, LAMBDA b : results[b] # "absent")

\* faulty variant: the failed outcomes are counted
SuccessCountOfFailed(results) ==
    Cardinality({b \in Backends : results[b] # "absent" /\ results[b] = "failed"})

\* sum(1 for r in results.values() if r.get('status') != 'failed')
SuccessCount(results) ==
    Cardinality({b \in Backends : results[b] # "absent" /\ results[b] # "failed"})

\* faulty variant: success only when no provider failed
AggregateStatusAllOrNothing(results) ==
    IF \A b \in Backends : results[b] # "failed" THEN "success" ELSE "failed"

\* 'status': 'success' if success_count > 0 else 'failed'
AggregateStatus(results) ==
    IF SuccessCount(results) > 0 THEN "success" ELSE "failed"

\* What a provider's search returned, by the outcome of the call: a list with
\* one hit for the query, a list whose element is not a dict (the provider
\* answered, _search_mem0 / _search_supermemory report 'success'), or the
\* empty list of a failed call.
SearchHits(b, outcome) ==
    CASE outcome = "success" -> << Hit(b, 1, "evidence-17", Absent) >>
      [] outcome = "malformed" -> << NotADict(b, 1) >>
      [] OTHER -> << >>

\* the results dict of a search as _merge_search_results receives it
ResultsByProvider(results) ==
    [ k \in DOMAIN ProvidersUsed(results) |->
        LET b == ProvidersUsed(results)[k]
        IN  [ provider |-> b,
              status |-> IF results[b] = "failed" THEN "failed" ELSE "success",
              results |-> SearchHits(b, results[b]) ] ]

\* The value an operation hands to its caller.  raised: the operation ended
\* in its except clause, which raises HTTPException(500), and returned nothing.
NoResult ==
    [ status |-> "", audit_chain_index |-> -1, providers_used |-> <<>>,
      results |-> [b \in Backends |-> "absent"], raised |-> FALSE,
      merged_results |-> <<>>, total_found |-> 0 ]

Raised == [NoResult EXCEPT !.raised = TRUE]

StoreResult(op) ==
    [ NoResult EXCEPT
        !.status = AggregateStatus(op.results),
        !.audit_chain_index = op.audit_entry.chain_index,
        !.providers_used = ProvidersUsed(op.results),
        !.results = op.results ]

\* the search result carries no aggregate status
SearchResult(op) ==
    LET out == SearchOutput(ResultsByProvider(op.results), DefaultLimit)
    IN  IF out.raised THEN Raised
        ELSE [ NoResult EXCEPT
                 !.audit_chain_index = op.audit_entry.chain_index,
                 !.providers_used = ProvidersUsed(op.results),
                 !.results = op.results,
                 !.merged_results = out.merged_results,
                 !.total_found = out.total_found ]

\* calls[b]: how many times the operation has called provider b
IdleOp ==
    [ kind |-> "none", provider |-> "all", content |-> "", pc |-> 0,
      awaiting |-> FALSE, audits |-> 0, audit_entry |-> NoEntry,
      results |-> [b \in Backends |-> "absent"],
      calls |-> [b \in Backends |-> 0], result |-> NoResult ]

\* One coroutine and the shared state it runs on:
\*   st = [op, chain, appended, metrics],  env = [avail, t, mem0]
\* avail is self.providers, t the clock of the run, mem0 what the mem0 client
\* does if it is called in this run.

\* audit_entry = self._create_audit_entry(<operation>, audit_data)
StepAudit(st, env) ==
    LET e == _create_audit_entry(st.chain, Operation(st.op.kind),
                                 AuditData(st.op, env.t), "None", env.t)
    IN  [st EXCEPT !.chain = AppendEntry(st.chain, e),
                   !.appended = Append(st.appended, e),
                   !.op.audit_entry = e,
                   !.op.audits = @ + 1,
                   !.op.pc = @ + 1]

\* results['mem0'] = await self._store_mem0(...) / self._search_mem0(...): the
\* mem0 client call is synchronous, the coroutine does not suspend in it

\* faulty variant: a failure of mem0 ends the dispatch, the operation goes
\* straight to its last step
StepMem0AbortOnFailure(st, env) ==
    IF Dispatches(env.avail, st.op.provider, "mem0")
    THEN [st EXCEPT !.op.results["mem0"] = env.mem0,
                    !.op.calls["mem0"] = @ + 1,
                    !.op.pc = IF env.mem0 = "failed"
                              THEN Len(Flow(st.op.kind)) ELSE @ + 1]
    ELSE [st EXCEPT !.op.pc = @ + 1]

StepMem0(st, env) ==
    IF Dispatches(env.avail, st.op.provider, "mem0")
    THEN [st EXCEPT !.op.results["mem0"] = env.mem0,
                    !.op.calls["mem0"] = @ + 1, !.op.pc = @ + 1]
    ELSE [st EXCEPT !.op.pc = @ + 1]

\* faulty variant: the request is sent and the operation goes on without
\* waiting for its outcome
StepSupermemoryNoWait(st, env) ==
    IF Dispatches(env.avail, st.op.provider, "supermemory")
    THEN [st EXCEPT !.op.calls["supermemory"] = @ + 1, !.op.pc = @ + 1]
    ELSE [st EXCEPT !.op.pc = @ + 1]

\* results['supermemory'] = await self._store_supermemory(...): the coroutine
\* suspends in the http request (awaiting), or the provider is skipped
StepSupermemory(st, env) ==
    IF Dispatches(env.avail, st.op.provider, "supermemory")
    THEN [st EXCEPT !.op.calls["supermemory"] = @ + 1, !.op.awaiting = TRUE]
    ELSE [st EXCEPT !.op.pc = @ + 1]

\* faulty variant: a store in which no provider succeeded is counted as failed
\* but left out of the total
StepFinalizeStoreFailedUncounted(st) ==
    [st EXCEPT
       !.metrics.total_memories_stored =
           IF SuccessCount(st.op.results) > 0 THEN @ + 1 ELSE @,
       !.metrics.successful_operations =
           IF SuccessCount(st.op.results) > 0 THEN @ + 1 ELSE @,
       !.metrics.failed_operations =
           IF SuccessCount(st.op.results) > 0 THEN @ ELSE @ + 1,
       !.op.result = StoreResult(st.op),
       !.op.pc = @ + 1]

\* store_memory_unified: update metrics, compile result, return
StepFinalizeStore(st) ==
    [st EXCEPT
       !.metrics.total_memories_stored = @ + 1,
       !.metrics.successful_operations =
           IF SuccessCount(st.op.results) > 0 THEN @ + 1 ELSE @,
       !.metrics.failed_operations =
           IF SuccessCount(st.op.results) > 0 THEN @ ELSE @ + 1,
       !.op.result = StoreResult(st.op),
       !.op.pc = @ + 1]

\* search_memory_unified: update metrics, merge, compile result, return; an
\* exception of the merge is caught by the handler's except clause, which
\* raises HTTPException(500)
StepFinalizeSearch(st) ==
    [st EXCEPT !.metrics.search_queries = @ + 1,
               !.op.result = SearchResult(st.op),
               !.op.pc = @ + 1]

StepOf(st, env) ==
    LET step == Flow(st.op.kind)[st.op.pc]
    IN  CASE step = "audit" -> StepAudit(st, env)
          [] step = "mem0" -> StepMem0(st, env)
          [] step = "supermemory" -> StepSupermemory(st, env)
          [] step = "finalize" ->
                 IF st.op.kind = "store" THEN StepFinalizeStore(st)
                                         ELSE StepFinalizeSearch(st)

\* the coroutine runs from its position to its next suspension or its return
RECURSIVE RunCoroutine(_, _)
RunCoroutine(st, env) ==
    IF st.op.pc > Len(Flow(st.op.kind)) \/ st.op.awaiting
    THEN st
    ELSE RunCoroutine(StepOf(st, env), env)

\* the operation has left its handler, by a return or by the exception
Ended(op) == op.kind # "none" /\ op.pc = Len(Flow(op.kind)) + 1

\* the operation returned a result to its caller
Returned(op) == Ended(op) /\ ~op.result.raised

\* ----------------------------------------- MemoryPluginClient._request
\* The statuses a response can carry, one of each class the code tells apart.
Statuses == {200, 304, 404, 429, 503}

\* resp.status_code == 429 or 500 <= resp.status_code < 600
Retryable(status) == status = 429 \/ (500 <= status /\ status < 600)

\* faulty variant: only the 2xx statuses are ok
OkOnly2xx(status) == 200 <= status /\ status < 300

\* requests.Response.ok: raise_for_status() raises for 400..599 only
Ok(status) == status < 400

\* what one requests.request(...) comes to: a RequestException, or a response
\* with a status and a body that is JSON or is not
Transport == [kind |-> "RequestException", status |-> 0, is_json |-> FALSE]

Responses ==
    {Transport}
      \cup [kind : {"response"}, status : Statuses \ {200}, is_json : {FALSE}]
      \cup [kind : {"response"}, status : {200}, is_json : BOOLEAN]

\* backoff_factor is a ratio, 1.5 is <<3, 2>>
RECURSIVE Pow(_, _)
Pow(x, n) == IF n = 0 THEN <<1, 1>> ELSE <<x[1] * Pow(x, n - 1)[1], x[2] * Pow(x, n - 1)[2]>>

\* sleep_s = self.backoff_factor ** (attempt - 1)
SleepOf(cl, attempt) == Pow(cl.backoff_factor, attempt - 1)

\* faulty variant: one retry more is allowed
ExhaustedOneLate(cl, attempt) == attempt > cl.max_retries + 1

\* if attempt > self.max_retries
Exhausted(cl, attempt) == attempt > cl.max_retries

\* The exceptions of _request: their class, the text the message starts with
\* and whether the RequestException is attached as __cause__.
NoError == [class |-> "", message |-> "", cause |-> FALSE]

NetworkError ==
    [class |-> "MemoryPluginError", message |-> "Network error calling", cause |-> TRUE]

\* faulty variant: exhausted retries on 429/5xx raise the base class
RateLimitErrorAsBase ==
    [class |-> "MemoryPluginError", message |-> "Failed after", cause |-> FALSE]

RateLimitError ==
    [class |-> "MemoryPluginRateLimitError", message |-> "Failed after", cause |-> FALSE]

HttpError ==
    [class |-> "MemoryPluginError", message |-> "HTTP", cause |-> FALSE]

\* class MemoryPluginRateLimitError(MemoryPluginError): what an except clause
\* for a class catches
Catches(class, error) ==
    \/ error.class = class
    \/ class = "MemoryPluginError" /\ error.class = "MemoryPluginRateLimitError"

\* One call of _request: attempt and the value returned or the exception
\* raised are the call's own; sleeps lists the time.sleep arguments so far,
\* requests counts the requests the call has sent, last is what the latest of
\* them came to and seen the kinds of failure the call has met.
IdleCall ==
    [ status |-> "idle", attempt |-> 0, sleeps |-> <<>>, requests |-> 0,
      last |-> Transport, seen |-> {}, error |-> NoError, value |-> <<>> ]

FailureKind(resp) ==
    IF resp.kind = "RequestException" THEN "transport"
    ELSE IF Retryable(resp.status) THEN "retryable status"
    ELSE IF ~Ok(resp.status) THEN "other status"
    ELSE "none"

\* faulty variant: the attempt counter is kept on the client, every call in
\* progress counts the attempt
AttemptCountedByAll(cs, c) ==
    [d \in DOMAIN cs |->
       IF cs[d].status = "running" THEN [cs[d] EXCEPT !.attempt = @ + 1] ELSE cs[d]]

\* attempt += 1
AttemptCounted(cs, c) == [cs EXCEPT ![c].attempt = @ + 1]

\* return resp.json(), or resp.text when the body is not JSON
ReturnValue(resp) == << IF resp.is_json THEN "json" ELSE "text", resp.status >>

\* one turn of the while loop of call c: the request resp and what follows it
\* up to the continue, the raise or the return
LoopTurn(cs, c, cl, resp) ==
    LET counted == AttemptCounted(cs, c)
        call == [counted[c] EXCEPT !.requests = @ + 1, !.last = resp,
                                   !.seen = @ \cup {FailureKind(resp)}]
        retry == [call EXCEPT !.sleeps = Append(@, SleepOf(cl, call.attempt))]
        raise(e) == [call EXCEPT !.status = "raised", !.error = e]
    IN  [counted EXCEPT ![c] =
           IF resp.kind = "RequestException"
           THEN IF Exhausted(cl, call.attempt) THEN raise(NetworkError) ELSE retry
           ELSE IF Retryable(resp.status)
           THEN IF Exhausted(cl, call.attempt) THEN raise(RateLimitError) ELSE retry
           ELSE IF ~Ok(resp.status) THEN raise(HttpError)
           ELSE [call EXCEPT !.status = "returned", !.value = ReturnValue(resp)]]

Calls == 1 .. MaxCalls

\* MemoryPluginClient.__init__: the configuration; timeout is in seconds
Clients ==
    [ api_key : {"key"}, base_url : {"https://api.memoryplugin.com"},
      timeout : {15}, max_retries : 0 .. MaxRetries, backoff_factor : {<<3, 2>>} ]

DefaultClient ==
    [ api_key |-> "key", base_url |-> "https://api.memoryplugin.com",
      timeout |-> 15, max_retries |-> MaxRetries, backoff_factor |-> <<3, 2>> ]

IdleRequests == client = DefaultClient /\ calls = [c \in Calls |-> IdleCall]

\* ---------------------------------------------------------------- adapters
\* ADAPTER_CLASSES, in the order the factory walks it
AdapterNames == <<"mem0", "pinecone", "supermemory">>

Adapters == {AdapterNames[k] : k \in DOMAIN AdapterNames}

\* source_system of the records of an adapter
SourceSystem(a) ==
    CASE a = "mem0" -> "Mem0" [] a = "pinecone" -> "Pinecone" [] OTHER -> "SuperMemory"

\* the logical writes: a write is one content with its metadata, handed to
\* the store of one or more adapters
Writes == 1 .. MaxWrites

\* content[:1000]
ContentClip == 1000

\* the content of a write: a string, here its text and its length; whole is
\* FALSE for a prefix of the text
WriteContent(w) ==
    IF w = 1 THEN [text |-> "evidence-17", length |-> 11, whole |-> TRUE]
    ELSE [text |-> "evidence-22", length |-> ContentClip + w, whole |-> TRUE]

Clip(content) ==
    IF content.length <= ContentClip THEN content
    ELSE [content EXCEPT !.length = ContentClip, !.whole = FALSE]

\* the queries: the text of the first write, and one that is in no content
AdapterQueries == {"evidence-17", "alibi"}

\* query_lower in memory["content"].lower()
Contains(query, content) == query = content.text

\* The container a mock client keeps its records in (MockMem0Client.memories,
\* MockSuperMemoryClient.memories, MockPineconeIndex.vectors): a dict, here
\* the sequence of its values in insertion order; exists is FALSE while the
\* attribute of the adapter is None.
NoClient == [exists |-> FALSE, memories |-> <<>>]

FreshClient == [exists |-> TRUE, memories |-> <<>>]

\* MemoryAdapter.__init__ and the __init__ of the subclass; secondary_key is
\* config.get("api_key_secondary")
NewAdapter(secondary_key) ==
    [ is_initialized |-> FALSE, client |-> NoClient, secondary |-> NoClient,
      secondary_key |-> secondary_key ]

\* How far initialize gets: "ok" is no exception, "client" an exception while
\* the client is made, "second" an exception after self.client was assigned
\* (mem0: making the secondary client; pinecone: get_index).
InitOutcomes(a, secondary_key) ==
    {"ok", "client"}
      \cup (IF a = "pinecone" \/ (a = "mem0" /\ secondary_key) THEN {"second"} ELSE {})

\* Mem0Adapter / PineconeAdapter / SuperMemoryAdapter.initialize: the adapter
\* afterwards.  The records of pinecone are in self.index, which is assigned
\* after self.client; those of the others are in self.client.
initialize(a, ad, outcome) ==
    IF outcome = "client" THEN ad
    ELSE IF outcome = "second"
    THEN IF a = "pinecone" THEN ad ELSE [ad EXCEPT !.client = FreshClient]
    ELSE [ad EXCEPT !.client = FreshClient,
                    !.secondary = IF ad.secondary_key THEN FreshClient ELSE @,
                    !.is_initialized = TRUE]

\* record_id = str(uuid.uuid4()); n is the number of values drawn before
RecordId(n) == <<"uuid4", n>>

\* what the mock client keeps for a record: {"id", "content", "metadata"}
Stored(a, id, content, metadata) ==
    [ id |-> id, content |-> IF a = "pinecone" THEN Clip(content) ELSE content,
      metadata |-> metadata ]

\* MemoryRecord(id, content, metadata, source_system)
MemoryRecord(a, id, content, metadata) ==
    [ id |-> id, content |-> content, metadata |-> metadata,
      source_system |-> SourceSystem(a) ]

\* self.memories[record_id] = ... / self.vectors[vector_id] = ...
Put(cl, rec) ==
    IF \E k \in DOMAIN cl.memories : cl.memories[k].id = rec.id
    THEN [cl EXCEPT !.memories =
            [k \in DOMAIN @ |-> IF @[k].id = rec.id THEN rec ELSE @[k]]]
    ELSE [cl EXCEPT !.memories = Append(@, rec)]

\* faulty variant: store goes on without the check
NotInitializedNever(ad) == FALSE

\* if not self.is_initialized: raise RuntimeError("... adapter not initialized")
NotInitialized(ad) == ~ad.is_initialized

\* store: what it raises, the record it returns, the adapter afterwards and
\* the number of uuid4 values it drew; w is the write, n the number of values
\* drawn before
store(a, ad, w, n) ==
    IF NotInitialized(ad)
    THEN [raised |-> "RuntimeError", records |-> <<>>, adapter |-> ad, drawn |-> 0]
    ELSE LET metadata == [write |-> w, note |-> ""]
             id == RecordId(n)
             rec == Stored(a, id, WriteContent(w), metadata)
         IN  [ raised |-> "",
               records |-> << MemoryRecord(a, id, WriteContent(w), metadata) >>,
               adapter |-> [ad EXCEPT
                              !.client = Put(@, rec),
                              !.secondary = IF @.exists THEN Put(@, rec) ELSE @],
               drawn |-> 1 ]

\* what the search of the mock client gives: of the first limit values of
\* the dict, those the query is in (mem0, supermemory) or all (pinecone)
Found(a, cl, query, limit) ==
    LET first == Take(cl.memories, limit)
    IN  IF a = "pinecone" THEN first
        ELSE SelectSeq(first, LAMBDA m : Contains(query, m.content))

AsRecords(a, found) ==
    [k \in DOMAIN found |->
       MemoryRecord(a, found[k].id, found[k].content, found[k].metadata)]

\* faulty variant: an exception of the client call leaves search
search_uncaught(a, ad, query, limit, fails) ==
    IF ~ad.is_initialized THEN [raised |-> "", records |-> <<>>]
    ELSE IF fails THEN [raised |-> "Exception", records |-> <<>>]
    ELSE [raised |-> "", records |-> AsRecords(a, Found(a, ad.client, query, limit))]

\* search: what it raises and the records it returns; fails: the client call
\* raises
search(a, ad, query, limit, fails) ==
    IF ~ad.is_initialized THEN [raised |-> "", records |-> <<>>]
    ELSE IF fails THEN [raised |-> "", records |-> <<>>]
    ELSE [raised |-> "", records |-> AsRecords(a, Found(a, ad.client, query, limit))]

\* get_by_id: the record as a one-element sequence, the empty sequence for
\* None
get_by_id(a, ad, id) ==
    IF ~ad.is_initialized THEN <<>>
    ELSE AsRecords(a, SelectSeq(ad.client.memories, LAMBDA m : m.id = id))

\* an id no store has given out
OtherId == <<"other", 0>>

\* update(content=None) or content="": both fail "if content:"
NoContent == [text |-> "", length |-> 0, whole |-> TRUE]

\* the contents update is called with
UpdateContents ==
    { NoContent,
      [text |-> "amended", length |-> 7, whole |-> TRUE],
      [text |-> "amended-22", length |-> ContentClip + 1, whole |-> TRUE] }

\* existing.metadata.update(metadata) for metadata = {"note": "reviewed"}
Annotated(metadata) == [metadata EXCEPT !.note = "reviewed"]

\* update of the record the adapter has built from get_by_id: "if content:
\* existing.content = content", "if metadata: existing.metadata.update(...)"
Updated(existing, content, annotate) ==
    [existing EXCEPT
       !.content = IF content.length > 0 THEN content ELSE @,
       !.metadata = IF annotate THEN Annotated(@) ELSE @]

\* What update leaves in the client for the record of the id.  mem0: nothing
\* is written back, but existing.metadata is the dict the client holds, so
\* the metadata changes in place and the content does not; supermemory:
\* client.update writes content and metadata; pinecone: the vector is
\* upserted again, the content cut as in store.
Persisted(a, m, existing) ==
    CASE a = "mem0" -> [m EXCEPT !.metadata = existing.metadata]
      [] a = "supermemory" ->
           [m EXCEPT !.content = existing.content, !.metadata = existing.metadata]
      [] OTHER -> Stored(a, m.id, existing.content, existing.metadata)

\* faulty variant: an id the client does not hold is stored anew
update_upsert(a, ad, id, content, annotate) ==
    IF NotInitialized(ad)
    THEN [raised |-> "RuntimeError", records |-> <<>>, adapter |-> ad]
    ELSE LET found == get_by_id(a, ad, id)
             existing ==
               Updated(IF found = <<>>
                       THEN MemoryRecord(a, id, NoContent, [write |-> 0, note |-> ""])
                       ELSE found[1], content, annotate)
         IN  [ raised |-> "", records |-> <<existing>>,
               adapter |-> [ad EXCEPT !.client =
                              Put(@, Stored(a, id, existing.content, existing.metadata))] ]

\* update: what it raises, the record it returns and the adapter afterwards;
\* annotate: metadata is given
update(a, ad, id, content, annotate) ==
    IF NotInitialized(ad)
    THEN [raised |-> "RuntimeError", records |-> <<>>, adapter |-> ad]
    ELSE LET found == get_by_id(a, ad, id)
         IN  IF found = <<>>
             THEN [raised |-> "ValueError", records |-> <<>>, adapter |-> ad]
             ELSE LET existing == Updated(found[1], content, annotate)
                  IN  [ raised |-> "", records |-> <<existing>>,
                        adapter |-> [ad EXCEPT !.client.memories =
                                       [k \in DOMAIN @ |->
                                          IF @[k].id = id
                                          THEN Persisted(a, @[k], existing)
                                          ELSE @[k]]] ]

\* del self.memories[memory_id] / del self.vectors[vector_id], if it is there
Remove(cl, id) == [cl EXCEPT !.memories = SelectSeq(@, LAMBDA m : m.id # id)]

\* delete: what it returns and the adapter afterwards; fails: the client
\* call raises.  What the client's delete returns is not looked at.
delete(a, ad, id, fails) ==
    IF ~ad.is_initialized THEN [ok |-> FALSE, adapter |-> ad]
    ELSE IF fails THEN [ok |-> FALSE, adapter |-> ad]
    ELSE [ok |-> TRUE, adapter |-> [ad EXCEPT !.client = Remove(@, id)]]

\* faulty variant: the adapter is registered whatever initialize returned
RegistersAlways(success) == TRUE

\* if success: self.adapters[adapter_name] = adapter
Registers(success) == success

\* what the factory meets for one name: the config does not pass
\* _check_required_config, or initialize of the new adapter returns True
\* ("ok") or False ("client"; the new adapter is dropped, so how far its
\* initialize got makes no difference)
FactoryOutcomes == {"missing_config", "ok", "client"}

\* initialize_all_adapters: the loop over ADAPTER_CLASSES from entry k on;
\* fa = [adapters, registered], outcome[a] is what the factory meets for a
RECURSIVE InitializeAll(_, _, _, _)
InitializeAll(fa, k, secondary_key, outcome) ==
    IF k > Len(AdapterNames) THEN fa
    ELSE LET a == AdapterNames[k]
             new == initialize(a, NewAdapter(a = "mem0" /\ secondary_key), outcome[a])
             next ==
               IF outcome[a] # "missing_config" /\ Registers(outcome[a] = "ok")
               THEN [ adapters |-> [fa.adapters EXCEPT ![a] = new],
                      registered |-> fa.registered \cup {a} ]
               ELSE fa
         IN  InitializeAll(next, k + 1, secondary_key, outcome)

\* MemoryAdapter.get_health_status: reads two fields of the adapter
get_health_status(a, ad) ==
    [ system |-> SourceSystem(a), initialized |-> ad.is_initialized,
      status |-> IF ad.is_initialized THEN "healthy" ELSE "not_initialized" ]

\* MemoryAdapter.get_statistics: no adapter class overrides it
get_statistics(a, ad) ==
    [ system |-> SourceSystem(a), total_records |-> 0, last_sync |-> "None" ]

\* MemoryAdapterFactory.get_adapter_health: the health of every adapter in
\* self.adapters, by name
get_adapter_health(fa, names) ==
    [a \in names |-> get_health_status(a, fa[a])]

NoStatistics == [ system |-> "", total_records |-> 0, last_sync |-> "None" ]

NoCall ==
    [ op |-> "none", adapter |-> "mem0", raised |-> "", ok |-> FALSE,
      records |-> <<>>, query |-> "", fails |-> FALSE,
      memory_id |-> OtherId, content |-> NoContent, annotate |-> FALSE,
      health |-> [a \in {} |-> NoStatistics], statistics |-> NoStatistics ]

IdleAdapters ==
    /\ adapters = [a \in Adapters |-> NewAdapter(FALSE)]
    /\ registered = {}
    /\ uuid_next = 0
    /\ last_call = NoCall

\* ------------------------------------------------ SmartMemoryOrchestrator
Namespaces == {"client:ACME", "client:B"}

\* a bucket as list_buckets gives it: id, name and metadata.namespace ("" when
\* the metadata carry none)
Bucket(id, name, namespace) == [id |-> id, name |-> name, namespace |-> namespace]

\* b.get("name") == namespace or b.get("metadata", {}).get("namespace") == namespace
Matches(b, namespace) == b.name = namespace \/ b.namespace = namespace

\* for b in buckets: if ...: return b["id"]; no_bucket when the loop ends
\* without a return
FirstMatch(listed, namespace) ==
    IF \E k \in DOMAIN listed : Matches(listed[k], namespace)
    THEN listed[CHOOSE k \in DOMAIN listed :
                   /\ Matches(listed[k], namespace)
                   /\ \A j \in 1 .. k - 1 : ~Matches(listed[j], namespace)].id
    ELSE 0

\* POST /v1/buckets as the service handles it: create_bucket(name=namespace,
\* metadata=md) with md.setdefault("namespace", namespace)
Created(held, namespace) == Append(held, Bucket(Len(held) + 1, namespace, namespace))

\* What a request to /v1/buckets comes to: a RequestException, a 503, a 404,
\* or a 200 with the JSON the API documents.
BucketResponses ==
    { Transport,
      [kind |-> "response", status |-> 503, is_json |-> FALSE],
      [kind |-> "response", status |-> 404, is_json |-> FALSE],
      [kind |-> "response", status |-> 200, is_json |-> TRUE] }

\* Whether the service has carried out a POST: it has when it answers 200
\* and has not when it answers 404; when the answer is a 5xx or never
\* arrives the client cannot tell.  A GET changes nothing.
Applies(method, resp) ==
    IF method = "GET" THEN {FALSE}
    ELSE IF resp.kind = "RequestException" \/ Retryable(resp.status) THEN BOOLEAN
    ELSE {Ok(resp.status)}

\* One call of ensure_bucket_for_namespace: where it is (list_buckets or
\* create_bucket under way, returned, raised), its namespace, the id it
\* returned, the POST requests it has sent and how many of them the service
\* carried out, and whether another call was under way during it.
IdleEnsure ==
    [ status |-> "idle", namespace |-> "", bucket_id |-> 0, posts |-> 0,
      created |-> 0, overlapped |-> FALSE ]

UnderWay(e) == e.status \in {"listing", "creating"}

\* the buckets the service holds before the first call: none, one named
\* otherwise whose metadata carry the namespace, or one of that name
HeldAtStart ==
    { <<>>,
      << Bucket(1, "acme", "client:ACME") >>,
      << Bucket(1, "client:B", "") >> }

IdleBuckets == buckets = <<>> /\ ensures = [c \in Calls |-> IdleEnsure]

\* ---------------------------------------------------------------- actions
\* What a call to a provider can come to: _store_* and _search_* report
\* 'success' or 'failed'; a search can also be answered with a payload whose
\* elements are not dicts.
Outcomes(kind) ==
    IF kind = "store" THEN {"success", "failed"}
    ELSE {"success", "failed", "malformed"}

\* ---------------------------------------------------- get_system_health
\* what the connection test of a provider comes to
Probes == {"success", "failed"}

\* provider_health[b]['status']; a provider that did not initialise is not
\* tested
ProviderHealth(avail, b, probe) ==
    IF b \notin avail THEN "absent"
    ELSE IF probe = "success" THEN "operational" ELSE "error"

NoHealth ==
    [ raised |-> FALSE, overall_status |-> "",
      providers |-> [b \in Backends |-> "absent"] ]

\* faulty variant: the search that tests mem0 is counted as a query
get_system_health_counts_probe(avail, m, t, mem0, supermemory) ==
    [ health_status |->
        [ raised |-> FALSE,
          overall_status |->
              IF "mem0" \in avail /\ mem0 = "failed"
              THEN "degraded" ELSE "operational",
          providers |->
              [b \in Backends |->
                 ProviderHealth(avail, b,
                     IF b = "mem0" THEN mem0 ELSE supermemory)] ],
      metrics |->
        [m EXCEPT !.last_health_check = t,
                  !.search_queries = IF "mem0" \in avail THEN @ + 1 ELSE @] ]

\* get_system_health: both connection tests sit in try/except Exception, so
\* no outcome of a test leaves the handler as an exception; only a failure of
\* mem0 degrades overall_status; the handler ends by stamping
\* self.metrics['last_health_check'].  health_status is what is returned,
\* metrics is self.metrics afterwards.
get_system_health(avail, m, t, mem0, supermemory) ==
    [ health_status |->
        [ raised |-> FALSE,
          overall_status |->
              IF "mem0" \in avail /\ mem0 = "failed"
              THEN "degraded" ELSE "operational",
          providers |->
              [b \in Backends |->
                 ProviderHealth(avail, b,
                     IF b = "mem0" THEN mem0 ELSE supermemory)] ],
      metrics |-> [m EXCEPT !.last_health_check = t] ]

InitEngine ==
    /\ health = NoHealth
    /\ providers \in SUBSET Backends
    /\ audit_chain = <<>>
    /\ metrics = [ total_memories_stored |-> 0, successful_operations |-> 0,
                   failed_operations |-> 0, search_queries |-> 0,
                   last_health_check |-> -1 ]
    /\ clock = 0
    /\ ops = [o \in Ops |-> IdleOp]
    /\ report = NoReport
    /\ appended = <<>>
    /\ tampers = 0

\* search_case while no search is looked at on its own
NoSearchCase ==
    [ results |-> <<>>, limit |-> DefaultLimit, done |-> FALSE, raised |-> FALSE,
      merged |-> <<>>, merged_results |-> <<>>, total_found |-> 0 ]

Init ==
    /\ InitEngine /\ search_case = NoSearchCase
    /\ IdleRequests /\ IdleAdapters /\ IdleBuckets

\* the engine constructed and not used
EngineAtRest == InitEngine /\ providers = Backends /\ search_case = NoSearchCase

\* The answers a provider can give to a search, up to MaxHits hits: each hit a
\* dict with 'content', a dict with 'text' only, a dict with neither, or not
\* a dict.
HitKinds ==
    { [dict |-> TRUE, content |-> "evidence-17", text |-> Absent],
      [dict |-> TRUE, content |-> "evidence-22", text |-> Absent],
      [dict |-> TRUE, content |-> Absent, text |-> "evidence-17"],
      [dict |-> TRUE, content |-> Absent, text |-> Absent],
      [dict |-> FALSE, content |-> Absent, text |-> Absent] }

HitLists(b) ==
    UNION { { [n \in 1 .. len |->
                 IF kinds[n].dict
                 THEN Hit(b, n, kinds[n].content, kinds[n].text)
                 ELSE NotADict(b, n)] : kinds \in [1 .. len -> HitKinds] }
            : len \in 0 .. MaxHits }

\* what _search_mem0 / _search_supermemory return for provider b
ProviderResults(b) ==
    { [provider |-> b, status |-> "failed", results |-> <<>>] }
      \cup { [provider |-> b, status |-> "success", results |-> hits]
               : hits \in HitLists(b) }

\* a search with provider ALL has reached its merge: results holds what each
\* available provider returned, mem0 first
InitSearchCase ==
    /\ InitEngine
    /\ \E limit \in 1 .. MaxLimit :
       \E m \in ProviderResults("mem0"), sm \in ProviderResults("supermemory") :
          search_case =
            [ NoSearchCase EXCEPT
                !.limit = limit,
                !.results = SelectSeq(<<m, sm>>, LAMBDA r : r.provider \in providers) ]
    /\ IdleRequests
    /\ IdleAdapters
    /\ IdleBuckets

Commit(o, st) ==
    /\ ops' = [ops EXCEPT ![o] = st.op]
    /\ audit_chain' = st.chain
    /\ appended' = st.appended
    /\ metrics' = st.metrics

\* a request reaches store_memory_unified or search_memory_unified, which runs
\* to its first suspension (or to its return, when supermemory is not called)
Start(o) ==
    /\ ops[o].pc = 0
    /\ \A p \in Ops : p < o => ops[p].pc # 0
    /\ \E kind \in {"store", "search"}, provider \in MemoryProvider :
         \E content \in (IF kind = "store" THEN Contents ELSE Queries),
            mem0 \in Outcomes(kind) :
            Commit(o, RunCoroutine(
                [ op |-> [IdleOp EXCEPT !.kind = kind, !.provider = provider,
                                        !.content = content, !.pc = 1],
                  chain |-> audit_chain, appended |-> appended,
                  metrics |-> metrics ],
                [ avail |-> providers, t |-> clock, mem0 |-> mem0 ]))
    /\ UNCHANGED <<providers, clock, report, tampers,
                 search_case, request_vars, adapter_vars, bucket_vars, health>>

\* the http request of the supermemory client ends (a response, an error
\* response or an exception) and the coroutine runs on to its return; the
\* second suspension, in the client's aclose(), touches no state and is not
\* modelled apart
Resume(o) ==
    /\ ops[o].awaiting
    /\ \E out \in Outcomes(ops[o].kind) :
         Commit(o, RunCoroutine(
             [ op |-> [ops[o] EXCEPT !.results["supermemory"] = out,
                                     !.awaiting = FALSE, !.pc = @ + 1],
               chain |-> audit_chain, appended |-> appended,
               metrics |-> metrics ],
             [ avail |-> providers, t |-> clock, mem0 |-> "failed" ]))
    /\ UNCHANGED <<providers, clock, report, tampers,
                 search_case, request_vars, adapter_vars, bucket_vars, health>>

\* await orchestrator.get_system_health()
HealthCheck ==
    /\ \E mem0, supermemory \in Probes :
          LET r == get_system_health(providers, metrics, clock, mem0, supermemory)
          IN  /\ metrics' = r.metrics
              /\ health' = r.health_status
    /\ UNCHANGED <<providers, audit_chain, clock, ops, report, appended, tampers,
                 search_case, request_vars, adapter_vars, bucket_vars>>

\* get_forensic_report, which calls _verify_audit_chain
ForensicReport ==
    /\ report' = get_forensic_report(audit_chain)
    /\ UNCHANGED <<providers, audit_chain, metrics, clock, ops, appended, tampers,
                 search_case, request_vars, adapter_vars, bucket_vars, health>>

Tick ==
    /\ clock < MaxClock
    /\ clock' = clock + 1
    /\ UNCHANGED <<providers, audit_chain, metrics, ops, report, appended, tampers,
                 search_case, request_vars, adapter_vars, bucket_vars, health>>

\* a holder of a reference to the chain or to one of its entries (the module
\* level orchestrator.audit_chain, an entry handed out by get_audit_entry or
\* in a report's sample) writes a field of an entry in place; the coroutine
\* that appended the entry holds the same dict
TamperFields ==
    { "operation", "data_hash", "timestamp_utc", "chain_index",
      "previous_hash", "result_status", "entry_hash" }

TamperedEntry(e, field) ==
    CASE field = "operation" -> [e EXCEPT !.operation = "tampered"]
      [] field = "data_hash" -> [e EXCEPT !.data_hash = sha256(<<"tampered">>)]
      [] field = "timestamp_utc" -> [e EXCEPT !.timestamp_utc = strftime_utc(-1)]
      [] field = "chain_index" -> [e EXCEPT !.chain_index = @ + 100]
      [] field = "previous_hash" -> [e EXCEPT !.previous_hash = sha256(<<"tampered">>)]
      [] field = "result_status" -> [e EXCEPT !.result_status = "success"]
      [] field = "entry_hash" -> [e EXCEPT !.entry_hash = sha256(<<"tampered">>)]

Tamper ==
    /\ tampers < MaxTampers
    /\ \E i \in 1 .. Len(audit_chain), field \in TamperFields :
         LET e == TamperedEntry(audit_chain[i], field)
         IN  /\ e # audit_chain[i]
             /\ audit_chain' = [audit_chain EXCEPT ![i] = e]
             /\ ops' = [o \in Ops |->
                          IF ops[o].audit_entry = audit_chain[i]
                          THEN [ops[o] EXCEPT !.audit_entry = e]
                          ELSE ops[o]]
    /\ tampers' = tampers + 1
    /\ UNCHANGED <<providers, metrics, clock, report, appended,
                 search_case, request_vars, adapter_vars, bucket_vars, health>>

\* search_memory_unified from "Merge and deduplicate results" to its return
\* or its exception; merged is the local merged_results before it is cut
MergeAndReturn ==
    /\ ~search_case.done
    /\ LET m == _merge_search_results(search_case.results)
           out == SearchOutput(search_case.results, search_case.limit)
       IN  search_case' =
             [ search_case EXCEPT
                 !.done = TRUE, !.raised = out.raised,
                 !.merged = IF m.raised THEN <<>> ELSE m.merged,
                 !.merged_results = out.merged_results,
                 !.total_found = out.total_found ]
    /\ UNCHANGED <<providers, audit_chain, metrics, clock, ops, report, appended,
                   tampers, request_vars, adapter_vars, bucket_vars, health>>

\* a client is constructed; no call has been made
InitRequest ==
    /\ EngineAtRest
    /\ client \in Clients
    /\ calls = [c \in Calls |-> IdleCall]
    /\ IdleAdapters
    /\ IdleBuckets

\* a thread calls client._request
RequestStart(c) ==
    /\ calls[c].status = "idle"
    /\ calls' = [calls EXCEPT ![c].status = "running"]
    /\ UNCHANGED <<providers, audit_chain, metrics, clock, ops, report, appended,
                   tampers, search_case, client, adapter_vars, bucket_vars, health>>

\* the call sends a request and handles what comes back
RequestAttempt(c) ==
    /\ calls[c].status = "running"
    /\ \E resp \in Responses : calls' = LoopTurn(calls, c, client, resp)
    /\ UNCHANGED <<providers, audit_chain, metrics, clock, ops, report, appended,
                   tampers, search_case, client, adapter_vars, bucket_vars, health>>

NextRequest ==
    \/ \E c \in Calls : RequestStart(c)
    \/ \E c \in Calls : RequestAttempt(c)

\* one adapter of each class is constructed; the environment holds a
\* secondary key for mem0 or not; the factory is empty
InitAdapters ==
    /\ EngineAtRest
    /\ IdleRequests
    /\ IdleBuckets
    /\ \E secondary_key \in BOOLEAN :
          adapters = [a \in Adapters |-> NewAdapter(a = "mem0" /\ secondary_key)]
    /\ registered = {}
    /\ uuid_next = 0
    /\ last_call = NoCall

EngineUnchanged ==
    UNCHANGED <<providers, audit_chain, metrics, clock, ops, report, appended,
                tampers, search_case, request_vars, bucket_vars, health>>

\* await adapter.initialize()
AdapterInitialize(a) ==
    /\ \E outcome \in InitOutcomes(a, adapters[a].secondary_key) :
          /\ adapters' = [adapters EXCEPT ![a] = initialize(a, @, outcome)]
          /\ last_call' = [NoCall EXCEPT !.op = "initialize", !.adapter = a,
                                         !.ok = (outcome = "ok")]
    /\ UNCHANGED <<registered, uuid_next>>
    /\ EngineUnchanged

\* await adapter.store(content, metadata)
AdapterStore(a) ==
    /\ uuid_next < MaxRecords
    /\ \E w \in Writes :
          LET out == store(a, adapters[a], w, uuid_next)
          IN  /\ adapters' = [adapters EXCEPT ![a] = out.adapter]
              /\ uuid_next' = uuid_next + out.drawn
              /\ last_call' = [NoCall EXCEPT !.op = "store", !.adapter = a,
                                             !.raised = out.raised,
                                             !.ok = (out.raised = ""),
                                             !.records = out.records]
    /\ UNCHANGED registered
    /\ EngineUnchanged

\* await adapter.search(query, limit=limit)
AdapterSearch(a) ==
    /\ \E query \in AdapterQueries, limit \in 1 .. MaxRecords, fails \in BOOLEAN :
          LET out == search(a, adapters[a], query, limit, fails)
          IN  last_call' = [NoCall EXCEPT !.op = "search", !.adapter = a,
                                         !.raised = out.raised,
                                         !.ok = (out.raised = ""),
                                         !.records = out.records,
                                         !.query = query, !.fails = fails]
    /\ UNCHANGED <<adapters, registered, uuid_next>>
    /\ EngineUnchanged

\* the ids the adapter methods are called with: those store has given out,
\* and one it has not
MemoryIds == {RecordId(n) : n \in 0 .. uuid_next - 1} \cup {OtherId}

\* await adapter.get_by_id(memory_id)
AdapterGetById(a) ==
    /\ \E id \in MemoryIds :
          last_call' = [NoCall EXCEPT !.op = "get_by_id", !.adapter = a,
                                     !.ok = TRUE, !.memory_id = id,
                                     !.records = get_by_id(a, adapters[a], id)]
    /\ UNCHANGED <<adapters, registered, uuid_next>>
    /\ EngineUnchanged

\* await adapter.update(memory_id, content, metadata)
AdapterUpdate(a) ==
    /\ \E id \in MemoryIds, content \in UpdateContents, annotate \in BOOLEAN :
          LET out == update(a, adapters[a], id, content, annotate)
          IN  /\ adapters' = [adapters EXCEPT ![a] = out.adapter]
              /\ last_call' = [NoCall EXCEPT !.op = "update", !.adapter = a,
                                             !.raised = out.raised,
                                             !.ok = (out.raised = ""),
                                             !.records = out.records,
                                             !.memory_id = id,
                                             !.content = content,
                                             !.annotate = annotate]
    /\ UNCHANGED <<registered, uuid_next>>
    /\ EngineUnchanged

\* await adapter.delete(memory_id)
AdapterDelete(a) ==
    /\ \E id \in MemoryIds, fails \in BOOLEAN :
          LET out == delete(a, adapters[a], id, fails)
          IN  /\ adapters' = [adapters EXCEPT ![a] = out.adapter]
              /\ last_call' = [NoCall EXCEPT !.op = "delete", !.adapter = a,
                                             !.ok = out.ok, !.memory_id = id,
                                             !.fails = fails]
    /\ UNCHANGED <<registered, uuid_next>>
    /\ EngineUnchanged

\* await factory.initialize_all_adapters()
FactoryInitializeAll ==
    /\ \E outcome \in [Adapters -> FactoryOutcomes] :
          /\ LET fa == InitializeAll([adapters |-> adapters, registered |-> registered],
                                     1, adapters["mem0"].secondary_key, outcome)
             IN  /\ adapters' = fa.adapters
                 /\ registered' = fa.registered
    /\ last_call' = [NoCall EXCEPT !.op = "initialize_all_adapters", !.ok = TRUE]
    /\ UNCHANGED uuid_next
    /\ EngineUnchanged

\* await adapter.get_health_status()
AdapterGetHealthStatus(a) ==
    /\ last_call' = [NoCall EXCEPT !.op = "get_health_status", !.adapter = a,
                                   !.ok = TRUE,
                                   !.health = [b \in {a} |->
                                       get_health_status(a, adapters[a])]]
    /\ UNCHANGED <<adapters, registered, uuid_next>>
    /\ EngineUnchanged

\* await adapter.get_statistics()
AdapterGetStatistics(a) ==
    /\ last_call' = [NoCall EXCEPT !.op = "get_statistics", !.adapter = a,
                                   !.ok = TRUE,
                                   !.statistics = get_statistics(a, adapters[a])]
    /\ UNCHANGED <<adapters, registered, uuid_next>>
    /\ EngineUnchanged

\* await factory.get_adapter_health()
FactoryGetAdapterHealth ==
    /\ last_call' = [NoCall EXCEPT !.op = "get_adapter_health", !.ok = TRUE,
                                   !.health = get_adapter_health(adapters, registered)]
    /\ UNCHANGED <<adapters, registered, uuid_next>>
    /\ EngineUnchanged

NextAdapters ==
    \/ \E a \in Adapters : AdapterInitialize(a)
    \/ \E a \in Adapters : AdapterStore(a)
    \/ \E a \in Adapters : AdapterSearch(a)
    \/ FactoryInitializeAll

\* one adapter is constructed and every call is made on it: last_call names
\* it from the start
InitRecords ==
    /\ EngineAtRest
    /\ IdleRequests
    /\ IdleBuckets
    /\ \E a \in Adapters, secondary_key \in BOOLEAN :
          /\ adapters = [b \in Adapters |-> NewAdapter(b = "mem0" /\ secondary_key)]
          /\ last_call = [NoCall EXCEPT !.adapter = a]
    /\ registered = {}
    /\ uuid_next = 0

\* the adapter the calls are made on
InUse == {last_call.adapter}

NextRecords ==
    \/ \E a \in InUse : AdapterInitialize(a)
    \/ \E a \in InUse : AdapterStore(a)
    \/ \E a \in InUse : AdapterGetById(a)
    \/ \E a \in InUse : AdapterUpdate(a)
    \/ \E a \in InUse : AdapterDelete(a)

\* what initialize_all_adapters came to before the accessors are called:
\* mem0 and supermemory initialised, the pinecone client could not be set up
AccessOutcomes ==
    { [a \in Adapters |-> IF a = "pinecone" THEN "client" ELSE "ok"] }

\* the engine constructed with both providers, the factory run, and a record
\* stored on mem0
InitHealth ==
    /\ EngineAtRest
    /\ IdleRequests
    /\ IdleBuckets
    /\ \E outcome \in AccessOutcomes :
          LET fa == InitializeAll(
                        [adapters |-> [a \in Adapters |-> NewAdapter(FALSE)],
                         registered |-> {}], 1, FALSE, outcome)
              out == store("mem0", fa.adapters["mem0"], 1, 0)
          IN  /\ adapters = [fa.adapters EXCEPT !["mem0"] = out.adapter]
              /\ registered = fa.registered
              /\ uuid_next = out.drawn
    /\ last_call = NoCall

\* a SmartMemoryOrchestrator over a client with the default configuration;
\* no call has been made
InitBuckets ==
    /\ EngineAtRest
    /\ IdleRequests
    /\ IdleAdapters
    /\ buckets \in HeldAtStart
    /\ ensures = [c \in Calls |-> IdleEnsure]

BucketsFrame ==
    UNCHANGED <<providers, audit_chain, metrics, clock, ops, report, appended,
                tampers, search_case, client, adapter_vars, health>>

\* a thread calls ensure_bucket_for_namespace (itself, or through add_memory
\* or get_relevant_context): list_buckets begins
EnsureStart(c) ==
    /\ ensures[c].status = "idle"
    /\ \E namespace \in Namespaces :
          LET met == \E d \in Calls \ {c} : UnderWay(ensures[d])
          IN  ensures' =
                [d \in Calls |->
                   IF d = c
                   THEN [IdleEnsure EXCEPT !.status = "listing",
                                           !.namespace = namespace,
                                           !.overlapped = met]
                   ELSE IF UnderWay(ensures[d])
                   THEN [ensures[d] EXCEPT !.overlapped = TRUE]
                   ELSE ensures[d]]
    /\ calls' = [calls EXCEPT ![c] = [IdleCall EXCEPT !.status = "running"]]
    /\ UNCHANGED buckets
    /\ BucketsFrame

\* One request of the call and what follows it: a turn of the loop of
\* _request; when list_buckets has returned, the search for the namespace
\* and the return of the id or the start of create_bucket; when
\* create_bucket has returned, the return of created["id"].
EnsureRequest(c) ==
    /\ UnderWay(ensures[c])
    /\ LET e == ensures[c]
           method == IF e.status = "listing" THEN "GET" ELSE "POST"
       IN  \E resp \in BucketResponses :
           \E applied \in Applies(method, resp) :
              LET held == IF applied THEN Created(buckets, e.namespace) ELSE buckets
                  turn == LoopTurn(calls, c, client, resp)
                  sent == [e EXCEPT !.posts = IF method = "POST" THEN @ + 1 ELSE @,
                                    !.created = IF applied THEN @ + 1 ELSE @]
                  found == FirstMatch(buckets, e.namespace)
              IN  /\ buckets' = held
                  /\ IF turn[c].status = "running"
                     THEN /\ ensures' = [ensures EXCEPT ![c] = sent]
                          /\ calls' = turn
                     ELSE IF turn[c].status = "raised"
                     THEN /\ ensures' = [ensures EXCEPT ![c] =
                                           [sent EXCEPT !.status = "raised"]]
                          /\ calls' = turn
                     ELSE IF method = "POST"
                     THEN /\ ensures' = [ensures EXCEPT ![c] =
                                           [sent EXCEPT !.status = "returned",
                                                        !.bucket_id = held[Len(held)].id]]
                          /\ calls' = turn
                     ELSE IF found # 0
                     THEN /\ ensures' = [ensures EXCEPT ![c] =
                                           [sent EXCEPT !.status = "returned",
                                                        !.bucket_id = found]]
                          /\ calls' = turn
                     ELSE /\ ensures' = [ensures EXCEPT ![c] =
                                           [sent EXCEPT !.status = "creating"]]
                          /\ calls' = [turn EXCEPT ![c] =
                                         [IdleCall EXCEPT !.status = "running"]]
    /\ BucketsFrame

NextBuckets ==
    \/ \E c \in Calls : EnsureStart(c)
    \/ \E c \in Calls : EnsureRequest(c)

NextOps ==
    \/ \E o \in Ops : Start(o)
    \/ \E o \in Ops : Resume(o)
    \/ Tick

Next ==
    \/ NextOps
    \/ HealthCheck
    \/ ForensicReport

NextHealth ==
    \/ NextOps
    \/ HealthCheck
    \/ \E a \in Adapters : AdapterGetHealthStatus(a)
    \/ \E a \in Adapters : AdapterGetStatistics(a)
    \/ FactoryGetAdapterHealth

NextTamper ==
    \/ NextOps
    \/ ForensicReport
    \/ Tamper

\* every operation of the engine
Spec == Init /\ [][Next]_vars

\* the store and search operations alone
SpecOps == Init /\ [][NextOps]_vars

\* the engine with entries written to in place from outside the engine
SpecTamper == Init /\ [][NextTamper]_vars

\* the merge of a search, for every answer of the providers
SpecMerge == InitSearchCase /\ [][MergeAndReturn]_vars

\* calls of _request on one client, from one thread or from several
SpecRequest == InitRequest /\ [][NextRequest]_vars

\* the adapters and their factory
SpecAdapters == InitAdapters /\ [][NextAdapters]_vars

\* calls of ensure_bucket_for_namespace, one after another or from several
\* threads at once
SpecBuckets == InitBuckets /\ [][NextBuckets]_vars

\* the records of one adapter: store, get_by_id, update, delete
SpecRecords == InitRecords /\ [][NextRecords]_vars

\* the health and statistics accessors beside the store and search operations
SpecHealth == InitHealth /\ [][NextHealth]_vars

\* the store and search operations while time passes: the clock always
\* advances, nothing makes a provider answer an outstanding request
SpecTimed == Init /\ [][NextOps]_vars /\ WF_vars(Tick)

\* ================================================================= claims
Linked(chain, i) == chain[i].previous_hash = chain[i - 1].entry_hash

LinksIntact(chain) == \A i \in 2 .. Len(chain) : Linked(chain, i)

\* python index of the first entry that is not linked to the one before it
FirstBrokenLink(chain) ==
    CHOOSE i \in 1 .. Len(chain) - 1 :
        /\ ~Linked(chain, i + 1)
        /\ \A j \in 1 .. i - 1 : Linked(chain, j + 1)

\* the providers an operation has called so far
CallsIssued(op) ==
    {b \in Backends : op.results[b] # "absent"}
        \cup (IF op.awaiting THEN {"supermemory"} ELSE {})

Position(chain, e) == {i \in 1 .. Len(chain) : chain[i] = e}

RECURSIVE SumAudits(_)
SumAudits(S) ==
    IF S = {} THEN 0
    ELSE LET o == CHOOSE x \in S : TRUE
         IN  ops[o].audits + SumAudits(S \ {o})

\* C1: in every reachable state the first entry of the audit chain carries the
\* sentinel "0" as previous_hash and every later entry carries the entry_hash
\* of the entry before it.
C1_ChainLinked ==
    /\ audit_chain # <<>> => audit_chain[1].previous_hash = ZeroHash
    /\ \A i \in 2 .. Len(audit_chain) :
          audit_chain[i].previous_hash = audit_chain[i - 1].entry_hash

\* a chain that a store and a search have both appended to
C1_Witness ==
    /\ Len(audit_chain) >= 2
    /\ \E i, j \in 1 .. Len(audit_chain) :
          /\ audit_chain[i].operation = "store_memory_unified"
          /\ audit_chain[j].operation = "search_memory_unified"

\* C2: for any interleaving of concurrent store and search operations the
\* appends are serialized: no two entries of the chain have read the same
\* tail, that is no two entries share a previous_hash, and every entry after
\* the first is linked to its predecessor.
C2_AppendsSerialized ==
    /\ \A i, j \in 1 .. Len(audit_chain) :
          i # j => audit_chain[i].previous_hash # audit_chain[j].previous_hash
    /\ \A i \in 2 .. Len(audit_chain) : Linked(audit_chain, i)
    /\ \A o \in Ops :
          ops[o].audits > 0 =>
             \E i \in 1 .. Len(audit_chain) :
                /\ audit_chain[i] = ops[o].audit_entry
                /\ i > 1 => ops[o].audit_entry.previous_hash
                               = audit_chain[i - 1].entry_hash

\* an operation appended its entry while an earlier one, which has appended
\* its own, is suspended in its supermemory call
C2_Witness ==
    \E o, p \in Ops :
       /\ o < p
       /\ ops[o].awaiting /\ ops[o].audits = 1
       /\ ops[p].audits = 1
       /\ ops[p].audit_entry.chain_index > ops[o].audit_entry.chain_index

\* C3: the entry at position i has chain_index i (counting from 0), and the
\* audit_chain_index an operation returns is the position of the entry that
\* this operation appended, also when operations overlap.
C3_ChainIndexIsPosition ==
    /\ \A i \in 1 .. Len(audit_chain) : audit_chain[i].chain_index = i - 1
    /\ \A o \in Ops :
          Returned(ops[o]) =>
             /\ ops[o].result.audit_chain_index \in 0 .. Len(audit_chain) - 1
             /\ audit_chain[ops[o].result.audit_chain_index + 1]
                    = ops[o].audit_entry
             /\ audit_chain[ops[o].result.audit_chain_index + 1].operation
                    = Operation(ops[o].kind)

\* the later of two overlapping operations returned index 1 while the earlier
\* one, holding index 0, is still suspended
C3_Witness ==
    \E o, p \in Ops :
       /\ ops[o].awaiting /\ ops[o].audit_entry.chain_index = 0
       /\ Returned(ops[p]) /\ ops[p].result.audit_chain_index = 1

\* C4: the chain is append-only: no step of a store, a search, a health check
\* or a forensic report (with its verification) shortens the chain or changes
\* any field of an entry that is already in it.
C4_AppendOnly ==
    [][ /\ Len(audit_chain') >= Len(audit_chain)
        /\ \A i \in 1 .. Len(audit_chain) : audit_chain'[i] = audit_chain[i]
      ]_vars

\* a health check and a forensic report have run on a chain of two entries
C4_Witness ==
    /\ Len(audit_chain) >= 2
    /\ metrics.last_health_check >= 0
    /\ report.kind = "return" /\ report.total_operations >= 1

\* C5 (as claimed): verification succeeds exactly when no hashed field of any
\* entry was changed after the entry was appended.
HashedFieldsMutated ==
    \E i \in 1 .. Len(appended) : EntryJson(audit_chain[i]) # EntryJson(appended[i])

C5_VerifyIffUnmutated ==
    _verify_audit_chain(audit_chain).value <=> ~HashedFieldsMutated

\* C6: a verification walks the links from index 1 on: it returns true exactly
\* when every entry's previous_hash equals the stored entry_hash of the entry
\* before it, reports the first index where they differ when it returns false,
\* returns true for a chain of at most one entry, and leaves the chain as it
\* is.
C6_VerifyWalksLinks ==
    [][ ForensicReport =>
          /\ report'.audit_chain_integrity <=> LinksIntact(audit_chain)
          /\ ~LinksIntact(audit_chain) =>
                report'.failure_index = FirstBrokenLink(audit_chain)
          /\ Len(audit_chain) <= 1 => report'.audit_chain_integrity
          /\ audit_chain' = audit_chain
      ]_vars

\* a report found the link into the second entry broken
C6_Witness ==
    /\ report.kind = "return"
    /\ ~report.audit_chain_integrity
    /\ report.failure_index = 1
    /\ report.total_operations = 2

\* C7 (as claimed): when a verification detects a broken link, its caller gets
\* an exception.
C7_BrokenLinkRaises ==
    report.failure_index >= 0 => report.kind = "raise"

\* C7 (amended): when a verification detects a broken link, no exception is
\* raised: the verification returns false and the forensic report is returned
\* with audit_chain_integrity false.
C7_BrokenLinkReturnsFalse ==
    report.failure_index >= 0 =>
       report.kind = "return" /\ report.audit_chain_integrity = FALSE

\* a report was returned for a chain whose first link is broken
C7_Witness ==
    /\ report.failure_index >= 0
    /\ report.total_operations >= 2
    /\ tampers > 0

\* C8: in every reachable state the entry_hash of every entry is the digest of
\* the canonical form of the entry's other fields as they are stored now.
C8_EntryHashMatchesFields ==
    \A i \in 1 .. Len(audit_chain) :
       audit_chain[i].entry_hash = sha256(EntryJson(audit_chain[i]))

\* two entries, the second one linked, after the operation of the first one
\* has returned
C8_Witness ==
    /\ Len(audit_chain) >= 2
    /\ audit_chain[2].previous_hash # ZeroHash
    /\ \E o \in Ops : Returned(ops[o]) /\ ops[o].audit_entry = audit_chain[1]

\* C9: no provider call of an operation is issued before the operation's
\* audit entry is in the chain.
C9_AuditBeforeDispatch ==
    \A o \in Ops :
       CallsIssued(ops[o]) # {} =>
          /\ ops[o].audits >= 1
          /\ Position(audit_chain, ops[o].audit_entry) # {}

\* a store and a search are both suspended in their supermemory call, the
\* store after its mem0 call
C9_Witness ==
    \E o, p \in Ops :
       /\ ops[o].kind = "store" /\ ops[o].awaiting
       /\ ops[o].results["mem0"] # "absent"
       /\ ops[p].kind = "search" /\ ops[p].awaiting

\* C10: every store or search operation appends exactly one audit entry,
\* whatever its providers answer; a store whose providers all failed returns
\* status failed, with one entry appended for it.
C10_OneEntryPerOperation ==
    /\ Len(audit_chain) = SumAudits(Ops)
    /\ \A o \in Ops :
          /\ ops[o].audits <= 1
          /\ Returned(ops[o]) =>
                /\ ops[o].audits = 1
                /\ Cardinality(Position(audit_chain, ops[o].audit_entry)) = 1
          /\ ( /\ Returned(ops[o]) /\ ops[o].kind = "store"
               /\ \A b \in Backends : ops[o].results[b] # "success" )
             => ops[o].result.status = "failed"

\* a store called both providers, both failed, and it returned
C10_Witness ==
    \E o \in Ops :
       /\ Returned(ops[o]) /\ ops[o].kind = "store"
       /\ \A b \in Backends : ops[o].results[b] = "failed"
       /\ ops[o].result.status = "failed"
       /\ ops[o].audits = 1

\* the entry an operation's result points at
EntryOf(op) == audit_chain[op.result.audit_chain_index + 1]

\* C11: once a store or a search has returned, its audit entry carries the
\* aggregate outcome (success, partial or failed) as result_status and no
\* longer a non-final status such as pending.
C11_EntryCarriesOutcome ==
    \A o \in Ops :
       Returned(ops[o]) =>
          /\ EntryOf(ops[o]).result_status \in {"success", "partial", "failed"}
          /\ ops[o].kind = "store" =>
                EntryOf(ops[o]).result_status = ops[o].result.status

\* a store for which one provider failed and the other succeeded
Mixed(op) ==
    /\ Returned(op) /\ op.kind = "store"
    /\ \E a, b \in Backends : op.results[a] = "failed" /\ op.results[b] = "success"

\* C12 (as stated): if provider A fails and provider B succeeds for the same
\* store, the aggregate status is partial and B's outcome is in the result.
C12_MixedIsPartial ==
    \A o \in Ops :
       Mixed(ops[o]) =>
          /\ ops[o].result.status = "partial"
          /\ \A b \in Backends :
                ops[o].results[b] = "success" => ops[o].result.results[b] = "success"

\* C12: if provider A fails and provider B succeeds for the same store, the
\* aggregate status is success (there is no status partial), both providers
\* are listed in providers_used and the outcome of each is in the result.
C12_MixedIsSuccess ==
    \A o \in Ops :
       Mixed(ops[o]) =>
          /\ ops[o].result.status = "success"
          /\ ops[o].result.providers_used = <<"mem0", "supermemory">>
          /\ ops[o].result.results = ops[o].results

\* mem0 failed, supermemory succeeded, the store returned
C12_Witness ==
    \E o \in Ops :
       /\ Mixed(ops[o])
       /\ ops[o].results["mem0"] = "failed"
       /\ ops[o].result.results["supermemory"] = "success"

\* the stores that have ended with no successful provider
AllFailedStores ==
    {o \in Ops : /\ Ended(ops[o]) /\ ops[o].kind = "store"
                 /\ \A b \in Backends : ops[o].results[b] \in {"absent", "failed"}}

\* C13: a store returns status failed only when every provider it called
\* reported failed; if at least one succeeded the status is not failed; and
\* failed_operations counts exactly the stores in which no provider succeeded.
C13_FailedOnlyWhenAllFailed ==
    /\ \A o \in Ops :
          (Returned(ops[o]) /\ ops[o].kind = "store") =>
             /\ ops[o].result.status = "failed" =>
                   \A b \in Backends : ops[o].results[b] \in {"absent", "failed"}
             /\ (\E b \in Backends : ops[o].results[b] = "success") =>
                   ops[o].result.status # "failed"
    /\ metrics.failed_operations = Cardinality(AllFailedStores)

\* one store failed at both providers and was counted, another store with a
\* successful provider was not
C13_Witness ==
    \E o, p \in Ops :
       /\ Returned(ops[o]) /\ ops[o].kind = "store"
       /\ \A b \in Backends : ops[o].results[b] = "failed"
       /\ Returned(ops[p]) /\ ops[p].kind = "store"
       /\ ops[p].results["mem0"] = "failed" /\ ops[p].results["supermemory"] = "success"
       /\ metrics.failed_operations = 1

\* C14: every selected and available provider is called exactly once per
\* operation, the operation ends only after every call has completed, the
\* result holds one outcome for each provider called, and a failure of one
\* provider does not keep the other from being called.
C14_EachProviderCalledOnce ==
    \A o \in Ops :
       /\ \A b \in Backends : ops[o].calls[b] <= 1
       /\ Ended(ops[o]) =>
             /\ ~ops[o].awaiting
             /\ \A b \in Backends :
                   IF Dispatches(providers, ops[o].provider, b)
                   THEN ops[o].calls[b] = 1 /\ ops[o].results[b] # "absent"
                   ELSE ops[o].calls[b] = 0 /\ ops[o].results[b] = "absent"
       /\ Returned(ops[o]) =>
             /\ ops[o].result.results = ops[o].results
             /\ Len(ops[o].result.providers_used)
                   = Cardinality({b \in Backends :
                                    Dispatches(providers, ops[o].provider, b)})
             /\ \A b \in Backends :
                   Dispatches(providers, ops[o].provider, b)
                     <=> \E k \in DOMAIN ops[o].result.providers_used :
                            ops[o].result.providers_used[k] = b

\* mem0 failed and supermemory was still called, once, and its outcome is in
\* the result
C14_Witness ==
    \E o \in Ops :
       /\ Returned(ops[o])
       /\ ops[o].results["mem0"] = "failed"
       /\ ops[o].calls["supermemory"] = 1
       /\ ops[o].result.results["supermemory"] = "success"

\* C15: no failure of a provider (an exception, an error response, a malformed
\* payload) leaves store_memory_unified or search_memory_unified as an
\* exception: every operation that ends has returned a result.
C15_NoProviderFailureRaises ==
    \A o \in Ops : Ended(ops[o]) => ~ops[o].result.raised

\* C16 (as stated): the calls of one operation are dispatched concurrently:
\* when the call to the second provider starts, the call to the first is
\* still outstanding.
C16_SecondStartsWhileFirstOutstanding ==
    [][ \A o \in Ops :
           ( /\ ops'[o].calls["supermemory"] > ops[o].calls["supermemory"]
             /\ Dispatches(providers, ops'[o].provider, "mem0") )
           => ops'[o].results["mem0"] = "absent" ]_vars

\* C16: the calls of one operation are made one after the other, mem0 first:
\* while the call to supermemory is outstanding the call to mem0 has already
\* completed, so an operation never has two calls outstanding and mem0 always
\* completes first.
C16_DispatchIsSequential ==
    \A o \in Ops :
       /\ ( ops[o].awaiting /\ Dispatches(providers, ops[o].provider, "mem0") )
             => ops[o].results["mem0"] # "absent"
       /\ ops[o].results["supermemory"] # "absent"
             => ( Dispatches(providers, ops[o].provider, "mem0")
                    => ops[o].results["mem0"] # "absent" )
       /\ ops[o].calls["mem0"] = 0 /\ Dispatches(providers, ops[o].provider, "mem0")
             => ops[o].calls["supermemory"] = 0

\* an operation that calls both providers waits for supermemory with the
\* outcome of mem0 in hand
C16_Witness ==
    \E o \in Ops :
       /\ ops[o].awaiting /\ ops[o].provider = "all"
       /\ ops[o].results["mem0"] = "success"
       /\ ops[o].results["supermemory"] = "absent"

RECURSIVE HitsInOrder(_, _)
HitsInOrder(results, k) ==
    IF k > Len(results) THEN <<>>
    ELSE LET r == results[k]
             tagged == [n \in DOMAIN r.results |->
                          [hit |-> r.results[n], provider |-> r.provider]]
         IN  (IF r.status = "success" THEN tagged ELSE <<>>)
                \o HitsInOrder(results, k + 1)

\* the positions at which a content occurs for the first time
FirstSeen(all) ==
    {i \in DOMAIN all :
       \A j \in 1 .. i - 1 : ContentStr(all[j].hit) # ContentStr(all[i].hit)}

\* the k-th smallest element of a set of positions
Nth(S, k) == CHOOSE i \in S : Cardinality({j \in S : j <= i}) = k

\* the contents that a successful mem0 and a successful supermemory both
\* returned
SharedContents(results) ==
    {c \in {"", "evidence-17", "evidence-22"} :
       \A b \in Backends :
          \E k \in DOMAIN results :
             /\ results[k].provider = b /\ results[k].status = "success"
             /\ \E n \in DOMAIN results[k].results :
                   ContentStr(results[k].results[n]) = c}

EntriesFor(merged, c) == {k \in DOMAIN merged : ContentStr(merged[k].hit) = c}

\* the providers a merged entry names as its sources
SourcesOf(entry) == {entry.source_provider}

Merged == search_case.done /\ ~search_case.raised

\* C18 (as stated): a content that two providers both returned gives exactly
\* one merged entry, and that entry lists both providers as its sources.
C18_SharedEntryListsBoth ==
    Merged =>
       \A c \in SharedContents(search_case.results) :
          /\ Cardinality(EntriesFor(search_case.merged, c)) = 1
          /\ \A k \in EntriesFor(search_case.merged, c) :
                SourcesOf(search_case.merged[k]) = {"mem0", "supermemory"}

\* C18: a content that two providers both returned gives exactly one merged
\* entry; its source_provider is mem0, the first provider merged, its payload
\* is the one mem0 returned, and supermemory is not recorded on it.
C18_SharedEntryNamesFirst ==
    Merged =>
       \A c \in SharedContents(search_case.results) :
          /\ Cardinality(EntriesFor(search_case.merged, c)) = 1
          /\ \A k \in EntriesFor(search_case.merged, c) :
                /\ SourcesOf(search_case.merged[k]) = {"mem0"}
                /\ search_case.merged[k].hit.id[1] = "mem0"

\* mem0 returned [evidence-17], supermemory [evidence-17, evidence-22]: two
\* merged entries, the shared one from mem0
C18_Witness ==
    /\ Merged
    /\ Len(search_case.results) = 2
    /\ search_case.results[1].results = << Hit("mem0", 1, "evidence-17", Absent) >>
    /\ search_case.results[2].results =
          << Hit("supermemory", 1, "evidence-17", Absent),
             Hit("supermemory", 2, "evidence-22", Absent) >>
    /\ Len(search_case.merged) = 2
    /\ search_case.merged[1].source_provider = "mem0"
    /\ search_case.merged[2].source_provider = "supermemory"

\* C19: the merged list has no two entries with the same content hash; for
\* each content the payload kept is the first one in the order mem0 before
\* supermemory, each provider's hits in their own order; and the entries stand
\* in the order in which their contents were first seen.
C19_FirstSeenWinsInOrder ==
    Merged =>
       LET all == HitsInOrder(search_case.results, 1)
           m == search_case.merged
       IN  /\ \A i, j \in DOMAIN m :
                 i # j => m[i].content_hash # m[j].content_hash
           /\ Len(m) = Cardinality(FirstSeen(all))
           /\ \A k \in DOMAIN m :
                 /\ m[k].hit = all[Nth(FirstSeen(all), k)].hit
                 /\ m[k].source_provider = all[Nth(FirstSeen(all), k)].provider
                 /\ m[k].content_hash = ContentHash(m[k].hit)

\* mem0 returned the same content twice and supermemory returned it again
\* after another content: the entry kept is the first hit of mem0 and it
\* stands before the other content
C19_Witness ==
    /\ Merged
    /\ Len(search_case.results) = 2
    /\ Len(search_case.results[1].results) = 2
    /\ \A n \in 1 .. 2 : ContentStr(search_case.results[1].results[n]) = "evidence-17"
    /\ Len(search_case.results[2].results) = 2
    /\ ContentStr(search_case.results[2].results[1]) = "evidence-22"
    /\ ContentStr(search_case.results[2].results[2]) = "evidence-17"
    /\ Len(search_case.merged) = 2
    /\ search_case.merged[1].hit.id = <<"mem0", 1>>
    /\ search_case.merged[2].hit.id = <<"supermemory", 1>>

\* the number of distinct contents in the answers of the successful providers
DistinctContents(results) ==
    Cardinality({ContentStr(HitsInOrder(results, 1)[i].hit) :
                    i \in DOMAIN HitsInOrder(results, 1)})

Min(a, b) == IF a <= b THEN a ELSE b

Range(seq) == {seq[k] : k \in DOMAIN seq}

\* C21 (as stated): in a store where one provider succeeds and the other
\* fails, providers_used holds exactly the providers whose outcome was
\* success, and the store's audit entry has result_status partial.
C21_ProvidersUsedAreSuccessful ==
    \A o \in Ops :
       Mixed(ops[o]) =>
          /\ Range(ops[o].result.providers_used)
                = {b \in Backends : ops[o].results[b] = "success"}
          /\ EntryOf(ops[o]).result_status = "partial"

\* C21: providers_used of a store holds every provider that was called, in the
\* order mem0, supermemory, whatever its outcome: where one provider succeeds
\* and the other fails it lists both; the store has exactly one audit entry,
\* whose result_status is the pending written when it was appended.
C21_ProvidersUsedAreCalled ==
    \A o \in Ops :
       /\ (Returned(ops[o]) /\ ops[o].kind = "store") =>
             /\ Range(ops[o].result.providers_used)
                   = {b \in Backends : ops[o].calls[b] = 1}
             /\ Len(ops[o].result.providers_used)
                   = Cardinality(Range(ops[o].result.providers_used))
       /\ Mixed(ops[o]) =>
             /\ ops[o].result.providers_used = <<"mem0", "supermemory">>
             /\ Cardinality(Position(audit_chain, ops[o].audit_entry)) = 1
             /\ EntryOf(ops[o]) = ops[o].audit_entry
             /\ EntryOf(ops[o]).result_status = "pending"

\* mem0 succeeded, supermemory failed, and the store lists both
C21_Witness ==
    \E o \in Ops :
       /\ Mixed(ops[o])
       /\ ops[o].results["mem0"] = "success"
       /\ ops[o].results["supermemory"] = "failed"
       /\ ops[o].result.providers_used = <<"mem0", "supermemory">>

\* the latest request of a call failed in a way that is retried
LastRetryable(call) ==
    call.requests > 0
      /\ (call.last.kind = "RequestException" \/ Retryable(call.last.status))

\* C23: a call of _request ends after at most max_retries + 1 attempts: the
\* attempt counter starts at 1, a retryable failure at attempt <= max_retries
\* is followed by a sleep of backoff_factor^(attempt-1) and a new attempt, the
\* first retryable failure at attempt > max_retries raises; so exactly
\* max_retries sleeps, with exponents 0 .. max_retries-1, come before giving up.
C23_RetryBudget ==
    \A c \in Calls :
       LET call == calls[c]
       IN  /\ call.attempt = call.requests
           /\ call.attempt <= client.max_retries + 1
           /\ \A k \in DOMAIN call.sleeps :
                 call.sleeps[k] = Pow(client.backoff_factor, k - 1)
           /\ call.status = "running" =>
                 /\ call.attempt <= client.max_retries
                 /\ Len(call.sleeps) = call.attempt
                 /\ call.attempt > 0 => LastRetryable(call)
           /\ (call.status \in {"raised", "returned"} /\ LastRetryable(call)) =>
                 /\ call.status = "raised"
                 /\ call.attempt = client.max_retries + 1
                 /\ Len(call.sleeps) = client.max_retries
           /\ (call.status \in {"raised", "returned"} /\ ~LastRetryable(call)) =>
                 Len(call.sleeps) = call.attempt - 1

\* with max_retries 2 a call gave up at its third attempt, after sleeps of
\* 1 and 3/2, having met both transport failures and 429/5xx
C23_Witness ==
    \E c \in Calls :
       /\ client.max_retries = 2
       /\ calls[c].status = "raised" /\ calls[c].attempt = 3
       /\ calls[c].sleeps = << <<1, 1>>, <<3, 2>> >>
       /\ calls[c].seen = {"transport", "retryable status"}

\* C24 (as stated): the error of a failed call tells the failure kind: one
\* class for exhausted transport failures, one for exhausted 429/5xx, one for
\* any other non-success status, and a caller can tell the three apart by the
\* class it catches.
C24_ThreeErrorClasses ==
    \A c, d \in Calls :
       ( /\ calls[c].status = "raised" /\ calls[d].status = "raised"
         /\ FailureKind(calls[c].last) # FailureKind(calls[d].last) )
       => /\ calls[c].error.class # calls[d].error.class
          /\ ~Catches(calls[c].error.class, calls[d].error)

\* C24: a failed call raises MemoryPluginRateLimitError when its retries ran
\* out on a 429/5xx and MemoryPluginError otherwise, with a message starting
\* "Network error calling" (and the RequestException as cause) when they ran
\* out on a transport failure and "HTTP" for a status that is not retried; the
\* error matches the failure of the last attempt, whatever came before; every
\* one of them is caught as MemoryPluginError.
C24_ErrorMatchesLastFailure ==
    \A c \in Calls :
       /\ calls[c].status = "raised" =>
             /\ calls[c].error =
                   CASE FailureKind(calls[c].last) = "transport" -> NetworkError
                     [] FailureKind(calls[c].last) = "retryable status" -> RateLimitError
                     [] OTHER -> HttpError
             /\ FailureKind(calls[c].last) # "none"
             /\ Catches("MemoryPluginError", calls[c].error)
             /\ Catches("MemoryPluginRateLimitError", calls[c].error)
                   <=> FailureKind(calls[c].last) = "retryable status"
       /\ calls[c].status # "raised" => calls[c].error = NoError

\* a call that met a 429/5xx first gave up on a transport failure, another
\* call failed on a 404: both raised MemoryPluginError
C24_Witness ==
    \E c, d \in Calls :
       /\ calls[c].status = "raised" /\ calls[c].error = NetworkError
       /\ "retryable status" \in calls[c].seen
       /\ calls[d].status = "raised" /\ calls[d].error = HttpError
       /\ calls[c].error.class = calls[d].error.class

\* the latest request of a call was answered with this status
Answered(call, status) ==
    call.requests > 0 /\ call.last.kind = "response" /\ call.last.status = status

\* C25 (as stated): a response whose status is not 2xx and neither 429 nor
\* 5xx fails the call at once, with no sleep and no further attempt; a 2xx
\* response ends the call with that response.
C25_Non2xxFailsAtOnce ==
    \A c \in Calls : \A status \in Statuses :
       Answered(calls[c], status) =>
          /\ (~(200 <= status /\ status < 300) /\ ~Retryable(status)) =>
                /\ calls[c].status = "raised"
                /\ Len(calls[c].sleeps) = calls[c].attempt - 1
          /\ (200 <= status /\ status < 300) =>
                /\ calls[c].status = "returned"
                /\ calls[c].value[2] = status

\* C25: a response with a status from 400 on that is neither 429 nor 5xx
\* fails the call at once, with no sleep and no further attempt, whatever the
\* attempt number; a response with a status below 400 (2xx, and also 3xx)
\* ends the call with that response, its JSON value or its text, and no
\* further attempt.
C25_ErrorStatusFailsAtOnce ==
    \A c \in Calls : \A status \in Statuses :
       Answered(calls[c], status) =>
          /\ (status >= 400 /\ ~Retryable(status)) =>
                /\ calls[c].status = "raised" /\ calls[c].error = HttpError
                /\ Len(calls[c].sleeps) = calls[c].attempt - 1
          /\ status < 400 =>
                /\ calls[c].status = "returned"
                /\ calls[c].value =
                      << IF calls[c].last.is_json THEN "json" ELSE "text", status >>
                /\ Len(calls[c].sleeps) = calls[c].attempt - 1

\* one call failed on a 404 at its second attempt, another returned the body
\* of a 304
C25_Witness ==
    \E c, d \in Calls :
       /\ Answered(calls[c], 404) /\ calls[c].attempt = 2
       /\ calls[c].status = "raised" /\ Len(calls[c].sleeps) = 1
       /\ Answered(calls[d], 304) /\ calls[d].status = "returned"

\* C26: _request writes no field of the client, and a step of one call
\* changes nothing of another call: each call counts its own attempts and
\* gives up only after max_retries + 1 requests of its own.
C26_RequestKeepsNoState ==
    [][ /\ client' = client
        /\ \A c \in Calls :
              calls'[c] # calls[c] =>
                 /\ \A d \in Calls \ {c} : calls'[d] = calls[d]
                 /\ calls'[c].attempt \in {calls[c].attempt, calls[c].attempt + 1}
                 /\ ( calls'[c].status = "raised" /\ LastRetryable(calls'[c]) )
                       => calls'[c].requests = client.max_retries + 1 ]_vars

\* one call has used up its retries while the other, started alongside, is
\* at its first retry
C26_Witness ==
    /\ client.max_retries = 2
    /\ calls[1].status = "raised" /\ calls[1].requests = 3
    /\ calls[2].status = "running" /\ calls[2].attempt = 1

\* the records an adapter holds in its client
Held(a) == adapters[a].client.memories

\* C22: the id is stable across backends for the same logical write: the
\* records two adapters hold for one write carry one id, no adapter having
\* made an id of its own.
C22_OneIdPerWrite ==
    \A a, b \in Adapters :
       \A i \in DOMAIN Held(a), j \in DOMAIN Held(b) :
          Held(a)[i].metadata.write = Held(b)[j].metadata.write
             => Held(a)[i].id = Held(b)[j].id

\* the adapter the latest call was made on
Called == last_call.adapter

\* C27: store on an adapter that is not initialized raises the
\* not-initialized RuntimeError and stores nothing: the adapter, the records
\* of its clients and the ids drawn are as before the call.
C27_StoreBeforeInitializeRaises ==
    [][ ( last_call'.op = "store" /\ ~adapters[Called'].is_initialized )
           => /\ last_call'.raised = "RuntimeError"
              /\ last_call'.records = <<>>
              /\ adapters' = adapters
              /\ uuid_next' = uuid_next
              /\ registered' = registered ]_vars

\* store has raised on an adapter whose initialize had failed after the
\* client was made, while another adapter holds a record
C27_Witness ==
    /\ last_call.op = "store" /\ last_call.raised = "RuntimeError"
    /\ ~adapters[Called].is_initialized
    /\ adapters[Called].client.exists
    /\ \E b \in Adapters : Held(b) # <<>>

\* C28: initialize is idempotent: a second successful initialize of an
\* initialized adapter leaves the adapter as it was, and every record stored
\* before it is still given by get_by_id and by search.
C28_InitializeIsIdempotent ==
    [][ ( last_call'.op = "initialize" /\ last_call'.ok
             /\ adapters[Called'].is_initialized )
           => /\ adapters'[Called'] = adapters[Called']
              /\ \A k \in DOMAIN Held(Called') :
                    /\ get_by_id(Called', adapters'[Called'], Held(Called')[k].id) # <<>>
                    /\ \E query \in AdapterQueries :
                          search(Called', adapters'[Called'], query, MaxRecords, FALSE).records
                             # <<>> ]_vars

\* C29: every adapter the factory has registered is initialized, an adapter
\* whose initialize failed is not registered, and no store, search or
\* get_by_id initializes an adapter or registers one.
C29_OnlyInitializedAdaptersRegistered ==
    [][ /\ \A a \in registered' : adapters'[a].is_initialized
        /\ last_call'.op \in {"store", "search", "get_by_id"}
              => /\ registered' = registered
                 /\ \A a \in Adapters :
                       adapters'[a].is_initialized = adapters[a].is_initialized ]_vars

\* the factory has registered one adapter and not another, and a search on
\* the one left out found it uninitialized
C29_Witness ==
    /\ registered # {} /\ registered # Adapters
    /\ last_call.op = "search"
    /\ Called \notin registered
    /\ ~adapters[Called].is_initialized
    /\ \E a \in registered : Held(a) # <<>>

\* no record the adapter holds is given for the query
NothingMatches(a, query) ==
    IF a = "pinecone" THEN Held(a) = <<>>
    ELSE \A k \in DOMAIN Held(a) : ~Contains(query, Held(a)[k].content)

\* C30: search never raises; it returns the empty sequence when nothing
\* matches, when the adapter is not initialized and when the client call
\* fails, and it leaves the adapters and their records as they were.
C30_SearchReturnsEmptyAndNeverRaises ==
    [][ last_call'.op = "search"
           => /\ last_call'.raised = ""
              /\ adapters' = adapters
              /\ ( \/ ~adapters[Called'].is_initialized
                   \/ last_call'.fails
                   \/ NothingMatches(Called', last_call'.query) )
                    => last_call'.records = <<>> ]_vars

\* the client call of a search failed on an initialized adapter that holds a
\* record the query is in
C30_Witness ==
    /\ last_call.op = "search" /\ last_call.fails
    /\ adapters[Called].is_initialized
    /\ ~NothingMatches(Called, last_call.query)
    /\ last_call.records = <<>> /\ last_call.raised = ""

\* the adapter holds a record under the id
Holds(a, id) == \E k \in DOMAIN Held(a) : Held(a)[k].id = id

\* C31: update on an id the backend does not hold fails with the not-found
\* error (a ValueError) and changes nothing: no record is made or modified.
\* On an adapter that is not initialized it fails with the RuntimeError and
\* changes nothing either.
C31_UpdateUnknownIdFails ==
    [][ ( last_call'.op = "update" /\ ~Holds(Called', last_call'.memory_id) )
           => /\ last_call'.raised =
                   IF adapters[Called'].is_initialized THEN "ValueError"
                   ELSE "RuntimeError"
              /\ last_call'.records = <<>>
              /\ adapters' = adapters
              /\ uuid_next' = uuid_next ]_vars

\* update was given the id of a record that had been deleted, on an adapter
\* that holds another record, and raised the ValueError
C31_Witness ==
    /\ last_call.op = "update" /\ last_call.raised = "ValueError"
    /\ last_call.memory_id # OtherId
    /\ last_call.content # NoContent
    /\ Held(Called) # <<>>

\* C32: delete on an id the backend does not hold is reported as not found:
\* the adapter never returns True for an id it does not hold.
C32_DeleteUnknownIdNotReported ==
    [][ ( last_call'.op = "delete" /\ ~Holds(Called', last_call'.memory_id) )
           => ~last_call'.ok ]_vars

\* C37: after update(id, content, metadata) has succeeded, get_by_id(id) on
\* the same adapter gives a record with that content and with that metadata.
C37_UpdateIsPersisted ==
    [][ ( last_call'.op = "update" /\ last_call'.raised = "" )
           => LET got == get_by_id(Called', adapters'[Called'], last_call'.memory_id)
              IN  /\ got # <<>>
                  /\ last_call'.content # NoContent
                        => got[1].content = last_call'.content
                  /\ last_call'.annotate
                        => got[1].metadata.note = "reviewed" ]_vars

\* C38: after store has returned record r, get_by_id(r.id) gives a record
\* with the full content of r; the id of r is new, so no earlier record is
\* overwritten; after delete(id) has returned True, get_by_id(id) gives
\* nothing.
C38_StoredRecordsStay ==
    [][ /\ ( last_call'.op = "store" /\ last_call'.raised = "" )
              => LET r == last_call'.records[1]
                     got == get_by_id(Called', adapters'[Called'], r.id)
                 IN  /\ got # <<>>
                     /\ got[1].content = r.content
                     /\ ~Holds(Called', r.id)
                     /\ \A k \in DOMAIN Held(Called') :
                           Held(Called')[k] \in
                              {adapters'[Called'].client.memories[j] :
                                 j \in DOMAIN adapters'[Called'].client.memories}
        /\ ( last_call'.op = "delete" /\ last_call'.ok )
              => get_by_id(Called', adapters'[Called'], last_call'.memory_id) = <<>> ]_vars

\* the calls made for a namespace
EnsuresFor(es, namespace) ==
    {c \in Calls : es[c].status # "idle" /\ es[c].namespace = namespace}

RECURSIVE CreatedBy(_, _)
CreatedBy(es, S) ==
    IF S = {} THEN 0
    ELSE LET c == CHOOSE x \in S : TRUE
         IN  es[c].created + CreatedBy(es, S \ {c})

\* the calls for one namespace that have returned gave one id
OneId(es, namespace) ==
    \A c, d \in EnsuresFor(es, namespace) :
       es[c].status = "returned" /\ es[d].status = "returned"
          => es[c].bucket_id = es[d].bucket_id

\* C34: ensure_bucket_for_namespace is idempotent: while the calls come one
\* after another, the calls for one namespace create at most one bucket in
\* total and return one id, and a call that finds a bucket of the namespace
\* in the list sends no create request.
C34_EnsureIsIdempotent ==
    [][ ( \A c \in Calls : ~ensures'[c].overlapped )
           => /\ \A namespace \in Namespaces :
                    /\ CreatedBy(ensures', EnsuresFor(ensures', namespace)) <= 1
                    /\ OneId(ensures', namespace)
              /\ \A c \in Calls :
                    ( ensures[c].status = "listing" /\ ensures'[c].status = "creating" )
                       => FirstMatch(buckets, ensures[c].namespace) = 0 ]_vars

\* C39: two calls at once for one namespace that have both returned, neither
\* having sent its create request more than once, have created at most one
\* bucket between them and have returned the same id.
C39_NoTwoBucketsForOneNamespace ==
    \A namespace \in Namespaces :
       ( \A c \in EnsuresFor(ensures, namespace) :
            ensures[c].status = "returned" /\ ensures[c].posts <= 1 )
          => /\ CreatedBy(ensures, EnsuresFor(ensures, namespace)) <= 1
             /\ OneId(ensures, namespace)

\* the operations of one kind that have left their handler
EndedOps(kind) == {o \in Ops : Ended(ops[o]) /\ ops[o].kind = kind}

\* the stores that have ended with a successful provider
SucceededStores ==
    {o \in EndedOps("store") : \E b \in Backends : ops[o].results[b] = "success"}

\* C35: for every interleaving of concurrent operations the counters stay
\* consistent: each completed store adds one to total_memories_stored and one
\* to exactly one of successful_operations / failed_operations, each completed
\* search adds one to search_queries and nothing to a store counter, a
\* suspended operation has added nothing yet, and no increment is lost, so
\* total_memories_stored = successful_operations + failed_operations.
C35_CountersConsistent ==
    /\ metrics.total_memories_stored = Cardinality(EndedOps("store"))
    /\ metrics.successful_operations = Cardinality(SucceededStores)
    /\ metrics.failed_operations =
          Cardinality(EndedOps("store") \ SucceededStores)
    /\ metrics.search_queries = Cardinality(EndedOps("search"))
    /\ metrics.total_memories_stored =
          metrics.successful_operations + metrics.failed_operations

\* a store that began first and was suspended in its request ended after a
\* search that began later; one store failed and one search are counted
C35_Witness ==
    \E o, p \in Ops :
       /\ o < p
       /\ Returned(ops[o]) /\ ops[o].kind = "store"
       /\ ops[o].calls["supermemory"] = 1
       /\ \A b \in Backends : ops[o].results[b] = "failed"
       /\ Returned(ops[p]) /\ ops[p].kind = "search"
       /\ ops[o].audit_entry.chain_index < ops[p].audit_entry.chain_index
       /\ ops[o].result.audit_chain_index = ops[o].audit_entry.chain_index
       /\ metrics.total_memories_stored = 1 /\ metrics.failed_operations = 1
       /\ metrics.successful_operations = 0 /\ metrics.search_queries = 1

\* what a provider returned is a successful search
Succeeded(pr) == pr.status = "success"

\* C36: only successful backends contribute to the merged search output: a
\* backend whose search failed is the source of no merged entry, the merged
\* entries and their order are those the successful backends give alone, and
\* every provider searched, the failed ones too, is still in the results by
\* provider.
C36_OnlySuccessfulBackendsMerge ==
    Merged =>
       /\ \A i \in DOMAIN search_case.merged :
             \E k \in DOMAIN search_case.results :
                /\ search_case.results[k].provider =
                      search_case.merged[i].source_provider
                /\ Succeeded(search_case.results[k])
       /\ search_case.merged =
             _merge_search_results(
                 SelectSeq(search_case.results, Succeeded)).merged
       /\ search_case.total_found =
             Len(_merge_search_results(
                     SelectSeq(search_case.results, Succeeded)).merged)
       /\ {search_case.results[k].provider : k \in DOMAIN search_case.results}
             = providers

\* mem0 returned two different hits, supermemory failed, and the merge kept
\* the two hits of mem0
C36_Witness ==
    /\ Merged
    /\ Len(search_case.results) = 2
    /\ search_case.results[1].provider = "mem0"
    /\ Succeeded(search_case.results[1])
    /\ Len(search_case.results[1].results) = 2
    /\ search_case.results[2].provider = "supermemory"
    /\ search_case.results[2].status = "failed"
    /\ Len(search_case.merged) = 2
    /\ \A i \in 1 .. 2 : search_case.merged[i].source_provider = "mem0"

\* the counters of self.metrics
Counters(m) ==
    <<m.total_memories_stored, m.successful_operations, m.failed_operations,
      m.search_queries>>

\* the step is a call of an adapter's or the factory's accessor that gave
\* its caller something new
AccessorStep == last_call' # last_call

\* the step is a health check of the engine that left a trace
HealthStep ==
    health' # health \/ metrics'.last_health_check # metrics.last_health_check

====
